---- MODULE Spec2Model ----
(***************************************************************************)
(* A model of the ancdec fixed-point decimal library (tiers AncDec8,       *)
(* AncDec32, AncDec, AncDec128).  Every operation is a pure function of    *)
(* its operands; the state machine draws operands from bounded sample      *)
(* sets and applies one operation per step.                                *)
(*                                                                         *)
(* The 8-bit tier is computed on TLC's integers with the widths of the     *)
(* source (u8, u16, u32 all fit).  The wider tiers need u64/u128/u256      *)
(* arithmetic, which TLC's 32-bit integers cannot hold: those values are   *)
(* unbounded naturals, kept as little-endian sequences of base-10^4 limbs  *)
(* with no high zero limb (zero is <<>>), and every wrap or checked        *)
(* overflow of the source is written out against 2^64 / 2^128.             *)
(***************************************************************************)
EXTENDS Integers, Sequences, FiniteSets, TLC

\* A function of the model is applied through Call, which evaluates the
\* arguments of the call before the body, as the source does.
RECURSIVE Call(_, _)

\* arithmetic and comparison of unbounded naturals
a (+) b == Call("BAdd", <<a, b>>)
a (-) b == Call("BSub", <<a, b>>)
a (.) b == Call("BMul", <<a, b>>)
a (/) b == Call("BDiv", <<a, b>>)
a %% b == Call("BMod", <<a, b>>)
a \prec b == Call("BLt", <<a, b>>)
a \preceq b == Call("BLe", <<a, b>>)
a \succ b == Call("BGt", <<a, b>>)
a \succeq b == Call("BGe", <<a, b>>)

\* ======================================================================
\* Unbounded naturals (the value domain of Rust's u32/u64/u128 arithmetic)
\* ======================================================================

LimbBase == 10 ^ 4

MaxOf(S) == CHOOSE m \in S : \A x \in S : x <= m

Limb(a, i) == IF i <= Len(a) THEN a[i] ELSE 0

\* drop high zero limbs
BNorm(a) ==
    LET nz == {i \in 1..Len(a) : a[i] # 0}
    IN  IF nz = {} THEN <<>> ELSE SubSeq(a, 1, MaxOf(nz))

\* a natural below 2^31 as limbs
Big(n) ==
    Call("BNorm", <<<<n % LimbBase, (n \div LimbBase) % LimbBase, n \div (LimbBase * LimbBase)>>>>)

\* a natural written as decimal groups of four digits, most significant first
BDec(g) == Call("BNorm", <<[i \in 1..Len(g) |-> g[Len(g) + 1 - i]]>>)

\* the value of a natural known to be below 2^31
Small(a) == Limb(a, 1) + LimbBase * Limb(a, 2) + LimbBase * LimbBase * Limb(a, 3)

BCmp(a, b) ==
    IF Len(a) # Len(b) THEN (IF Len(a) < Len(b) THEN -1 ELSE 1)
    ELSE LET d == {i \in 1..Len(a) : a[i] # b[i]}
         IN  IF d = {} THEN 0
             ELSE LET m == MaxOf(d) IN IF a[m] < b[m] THEN -1 ELSE 1

BLt(a, b) == Call("BCmp", <<a, b>>) < 0
BLe(a, b) == Call("BCmp", <<a, b>>) <= 0
BGt(a, b) == Call("BCmp", <<a, b>>) > 0
BGe(a, b) == Call("BCmp", <<a, b>>) >= 0
BZero(a) == Len(a) = 0

\* Carry propagation over columns v[lo..hi] (each column may be negative or
\* exceed the base), carry c coming in: <<limbs lo..hi, carry out>>.
RECURSIVE BCarryR(_, _, _, _)
BCarryR(v, lo, hi, c) ==
    IF lo = hi
    THEN LET s == v[lo] + c
             m == ((s % LimbBase) + LimbBase) % LimbBase
         IN  <<<<m>>, (s - m) \div LimbBase>>
    ELSE LET mid == (lo + hi) \div 2
             L == BCarryR(v, lo, mid, c)
             H == BCarryR(v, mid + 1, hi, L[2])
         IN  <<L[1] \o H[1], H[2]>>

\* the natural whose columns are v (the total must be a natural)
BCarry(v) ==
    IF Len(v) = 0 THEN <<>>
    ELSE LET r == Call("BCarryR", <<v, 1, Len(v), 0>>)
         IN  Call("BNorm", <<r[1] \o <<r[2] % LimbBase, r[2] \div LimbBase>>>>)

BAdd(a, b) ==
    LET n == IF Len(a) > Len(b) THEN Len(a) ELSE Len(b)
    IN  Call("BCarry", <<[i \in 1..n |-> Limb(a, i) + Limb(b, i)]>>)

\* a - b, for a >= b
BSub(a, b) == Call("BCarry", <<[i \in 1..Len(a) |-> a[i] - Limb(b, i)]>>)

\* a * k for 0 <= k < LimbBase
BMulSmall(a, k) == Call("BCarry", <<[i \in 1..Len(a) |-> a[i] * k]>>)

RECURSIVE BColSum(_, _, _, _, _)
\* sum of a[i] * b[k + 1 - i] over i in lo..hi
BColSum(a, b, k, lo, hi) ==
    IF lo > hi THEN 0
    ELSE IF lo = hi THEN a[lo] * b[k + 1 - lo]
    ELSE LET mid == (lo + hi) \div 2
         IN  BColSum(a, b, k, lo, mid) + BColSum(a, b, k, mid + 1, hi)

\* a * b (the shorter operand has at most 21 limbs, so a column sum stays
\* below 2^31)
BMul(a, b) ==
    IF Len(a) = 0 \/ Len(b) = 0 THEN <<>>
    ELSE Call("BCarry", <<[k \in 1..(Len(a) + Len(b) - 1) |->
            Call("BColSum", <<a, b, k, IF k + 1 - Len(b) > 1 THEN k + 1 - Len(b) ELSE 1, IF k < Len(a) THEN k ELSE Len(a)>>)]>>)

\* the limbs of a in the opposite order
BRev(a) == [i \in 1..Len(a) |-> a[Len(a) + 1 - i]]

RECURSIVE BDivSmallR(_, _, _, _, _)
\* short division of limbs a[lo..hi] by k < LimbBase, remainder r coming in:
\* <<quotient limbs, high limb first, remainder>>
BDivSmallR(a, k, lo, hi, r) ==
    IF lo = hi
    THEN LET cur == r * LimbBase + a[lo] IN <<<<cur \div k>>, cur % k>>
    ELSE LET mid == (lo + hi) \div 2
             H == BDivSmallR(a, k, mid + 1, hi, r)
             L == BDivSmallR(a, k, lo, mid, H[2])
         IN  <<H[1] \o L[1], L[2]>>

\* <<a div k, a mod k>> for 0 < k < LimbBase, the remainder a plain integer
BDivSmall(a, k) ==
    IF Len(a) = 0 THEN <<<<>>, 0>>
    ELSE LET r == Call("BDivSmallR", <<a, k, 1, Len(a), 0>>) IN <<Call("BNorm", <<Call("BRev", <<r[1]>>)>>), r[2]>>

RECURSIVE BDigit(_, _, _, _)
\* the largest d in lo..hi with d * b <= r, given lo * b <= r
BDigit(r, b, lo, hi) ==
    IF lo >= hi THEN lo
    ELSE LET mid == (lo + hi + 1) \div 2
         IN  IF (Call("BMulSmall", <<b, mid>>) \preceq r) THEN BDigit(r, b, mid, hi)
                                          ELSE BDigit(r, b, lo, mid - 1)

\* r div b for r < b * LimbBase
BQuotDigit(r, b) ==
    LET n == Len(b)
    IN  IF Len(r) < n THEN 0
        ELSE LET top == IF Len(r) > n THEN r[n + 1] * LimbBase + r[n] ELSE r[n]
                 hi0 == top \div b[n]
                 hi  == IF hi0 > LimbBase - 1 THEN LimbBase - 1 ELSE hi0
                 lo  == top \div (b[n] + 1)
             IN  Call("BDigit", <<r, b, lo, hi>>)

RECURSIVE BDivLongR(_, _, _, _, _)
\* long division of limbs a[lo..hi] by b, remainder r < b coming in:
\* <<quotient limbs, high limb first, remainder>>
BDivLongR(a, b, lo, hi, r) ==
    IF lo = hi
    THEN LET cur == Call("BNorm", <<<<a[lo]>> \o r>>)
             d   == Call("BQuotDigit", <<cur, b>>)
         IN  <<<<d>>, (cur (-) Call("BMulSmall", <<b, d>>))>>
    ELSE LET mid == (lo + hi) \div 2
             H == BDivLongR(a, b, mid + 1, hi, r)
             L == BDivLongR(a, b, lo, mid, H[2])
         IN  <<H[1] \o L[1], L[2]>>

\* <<a div b, a mod b>> for b > 0; the divisor is first scaled so that its
\* top limb is at least LimbBase / 2, which keeps the digit search short
BDivMod(a, b) ==
    IF (a \prec b) THEN <<<<>>, a>>
    ELSE IF Len(b) = 1
    THEN LET r == Call("BDivSmall", <<a, b[1]>>) IN <<r[1], Call("Big", <<r[2]>>)>>
    ELSE LET f  == LimbBase \div (b[Len(b)] + 1)
             an == Call("BMulSmall", <<a, f>>)
             bn == Call("BMulSmall", <<b, f>>)
             r  == Call("BDivLongR", <<an, bn, 1, Len(an), <<>>>>)
         IN  <<Call("BNorm", <<Call("BRev", <<r[1]>>)>>), Call("BDivSmall", <<r[2], f>>)[1]>>

BDiv(a, b) == Call("BDivMod", <<a, b>>)[1]
BMod(a, b) == Call("BDivMod", <<a, b>>)[2]

\* 10^e
BPow10(e) == [i \in 1..(e \div 4) |-> 0] \o <<10 ^ (e % 4)>>

RECURSIVE BPow2(_)
\* 2^k
BPow2(k) ==
    IF k < 13 THEN <<2 ^ k>>
    ELSE LET h == BPow2(k \div 2)
             s == (h (.) h)
         IN  IF k % 2 = 0 THEN s ELSE Call("BMulSmall", <<s, 2>>)

\* ======================================================================
\* Results of operations
\* ======================================================================

Dec(int, frac, scale, neg) == [int |-> int, frac |-> frac, scale |-> scale, neg |-> neg]

\* a returned value / a panic (assert!, expect, checked arithmetic)
Ok(v) == [tag |-> "ok", val |-> v]
Abort == [tag |-> "abort", val |-> <<>>]
\* Option
Some(v) == [tag |-> "some", val |-> v]
None == [tag |-> "none", val |-> <<>>]

\* TLC computes a LET definition or an operator argument on demand, nested
\* inside the evaluation that first needs it.  Eval(x) is TRUE for every x;
\* as the guard of a one-armed CASE it computes x at that point, the way the
\* source's sequential let statements do.
Eval(x) == x = x

\* core::cmp::Ordering as -1, 0, 1
Less == 0 - 1
Equal == 0
Greater == 1
OrdOf(x, y) == IF x < y THEN Less ELSE IF x > y THEN Greater ELSE Equal

U8Max == 2 ^ 8 - 1

\* ======================================================================
\* util.rs
\* ======================================================================

TARGET_SCALE_8 == 2
SCALE2 == 100
TARGET_SCALE_32 == 9
TARGET_SCALE == 19
TARGET_SCALE_128 == 38

\* the pow10 tables; every caller below passes an exponent inside the table
pow10_u8(exp) == 10 ^ exp
pow10_16(exp) == 10 ^ exp
pow10_32(exp) == 10 ^ exp

\* ======================================================================
\* AncDec8: u8 int, u8 frac, scale 0..2
\* ======================================================================

is_zero8(d) == d.int = 0 /\ d.frac = 0

\* <<self_frac, other_frac, scale, limit>>
align_frac8(self, other) ==
    IF self.scale = other.scale
    THEN <<self.frac, other.frac, self.scale, pow10_u8(self.scale)>>
    ELSE IF self.scale > other.scale
    THEN <<self.frac, other.frac * pow10_u8(self.scale - other.scale),
           self.scale, pow10_u8(self.scale)>>
    ELSE <<self.frac * pow10_u8(other.scale - self.scale), other.frac,
           other.scale, pow10_u8(other.scale)>>

\* an addition that keeps the fractional carry out of the integer part
add_aligned8_no_carry(a_int, a_frac, b_int, b_frac, scale, limit) ==
    LET frac == a_frac + b_frac
    IN  IF a_int + b_int > U8Max THEN Abort
        ELSE Ok(<<a_int + b_int, frac % limit, scale>>)

\* an addition that carries into the integer part and keeps the whole sum
\* of the fractional parts
add_aligned8_keep_frac(a_int, a_frac, b_int, b_frac, scale, limit) ==
    LET frac == a_frac + b_frac
        overflow == IF frac >= limit THEN 1 ELSE 0
    IN  IF a_int + b_int + overflow > U8Max
        THEN Abort
        ELSE Ok(<<a_int + b_int + overflow, frac, scale>>)

\* <<int, frac, scale>>, or the panic of expect("integer overflow in addition")
add_aligned8(a_int, a_frac, b_int, b_frac, scale, limit) ==
    LET frac == a_frac + b_frac
        overflow == IF frac >= limit THEN 1 ELSE 0
    IN  IF a_int + b_int > U8Max \/ a_int + b_int + overflow > U8Max
        THEN Abort
        ELSE Ok(<<a_int + b_int + overflow, frac - overflow * limit, scale>>)

\* a difference of magnitudes that always takes the sign of the first operand
sub_with_cmp8_first_sign(a_int, a_frac, a_neg, b_int, b_frac, b_neg, scale, limit) ==
    IF a_int > b_int \/ (a_int = b_int /\ a_frac >= b_frac)
    THEN LET borrow == IF a_frac < b_frac THEN 1 ELSE 0
         IN  Dec(a_int - b_int - borrow,
                 (((a_frac - b_frac) % 256) + borrow * limit) % 256, scale, a_neg)
    ELSE LET borrow == IF b_frac < a_frac THEN 1 ELSE 0
         IN  Dec(b_int - a_int - borrow,
                 (((b_frac - a_frac) % 256) + borrow * limit) % 256, scale, a_neg)

sub_with_cmp8(a_int, a_frac, a_neg, b_int, b_frac, b_neg, scale, limit) ==
    IF a_int > b_int \/ (a_int = b_int /\ a_frac >= b_frac)
    THEN LET borrow == IF a_frac < b_frac THEN 1 ELSE 0
         IN  Dec(a_int - b_int - borrow,
                 (((a_frac - b_frac) % 256) + borrow * limit) % 256, scale, a_neg)
    ELSE LET borrow == IF b_frac < a_frac THEN 1 ELSE 0
         IN  Dec(b_int - a_int - borrow,
                 (((b_frac - a_frac) % 256) + borrow * limit) % 256, scale, b_neg)

add8(self, other) ==
    LET al == Call("align_frac8", <<self, other>>)
    IN  IF self.neg = other.neg
        THEN LET r == Call("add_aligned8", <<self.int, al[1], other.int, al[2], al[3], al[4]>>)
             IN  IF r.tag = "abort" THEN Abort
                 ELSE Ok(Dec(r.val[1], r.val[2], r.val[3], self.neg))
        ELSE Ok(Call("sub_with_cmp8", <<self.int, al[1], self.neg, other.int, al[2], other.neg, al[3], al[4]>>))

\* a sub that hands the unflipped sign of other to sub_with_cmp
sub8_unflipped(self, other) ==
    LET al == Call("align_frac8", <<self, other>>)
        other_neg == ~other.neg
    IN  IF self.neg = other_neg
        THEN LET r == Call("add_aligned8", <<self.int, al[1], other.int, al[2], al[3], al[4]>>)
             IN  IF r.tag = "abort" THEN Abort
                 ELSE Ok(Dec(r.val[1], r.val[2], r.val[3], self.neg))
        ELSE Ok(Call("sub_with_cmp8", <<self.int, al[1], self.neg, other.int, al[2], other.neg, al[3], al[4]>>))

sub8(self, other) ==
    LET al == Call("align_frac8", <<self, other>>)
        other_neg == ~other.neg
    IN  IF self.neg = other_neg
        THEN LET r == Call("add_aligned8", <<self.int, al[1], other.int, al[2], al[3], al[4]>>)
             IN  IF r.tag = "abort" THEN Abort
                 ELSE Ok(Dec(r.val[1], r.val[2], r.val[3], self.neg))
        ELSE Ok(Call("sub_with_cmp8", <<self.int, al[1], self.neg, other.int, al[2], other_neg, al[3], al[4]>>))

\* u16 combined value int * 10^scale + frac
combined8(d) == d.int * pow10_16(d.scale) + d.frac

mul8(self, other) ==
    LET neg == self.neg # other.neg
        total_scale == self.scale + other.scale
        product == Call("combined8", <<self>>) * Call("combined8", <<other>>)
    IN  IF total_scale > TARGET_SCALE_8
        THEN LET reduced == product \div pow10_32(total_scale - TARGET_SCALE_8)
                 int_part == reduced \div SCALE2
             IN  IF int_part > U8Max THEN Abort
                 ELSE Ok(Dec(int_part, reduced % SCALE2, TARGET_SCALE_8, neg))
        ELSE IF total_scale = 0
        THEN IF product > U8Max THEN Abort ELSE Ok(Dec(product, 0, 0, neg))
        ELSE LET divisor == pow10_16(total_scale)
                 int_part == product \div divisor
             IN  IF int_part > U8Max THEN Abort
                 ELSE Ok(Dec(int_part, product % divisor, total_scale, neg))

\* a division that answers zero for a zero divisor
div8_zero_for_zero(self, other) ==
    IF ~(other.int # 0 \/ other.frac # 0) THEN Ok(Dec(0, 0, TARGET_SCALE_8, self.neg # other.neg))
    ELSE LET a == Call("combined8", <<self>>)
             b == Call("combined8", <<other>>)
             quotient == (a * pow10_32(TARGET_SCALE_8 + other.scale - self.scale)) \div b
         IN  Ok(Dec((quotient \div SCALE2) % 256, (quotient % SCALE2) % 256,
                    TARGET_SCALE_8, self.neg # other.neg))

div8(self, other) ==
    IF ~(other.int # 0 \/ other.frac # 0) THEN Abort
    ELSE LET neg == self.neg # other.neg
             a == Call("combined8", <<self>>)
             b == Call("combined8", <<other>>)
             shift == TARGET_SCALE_8 + other.scale
             numerator == IF shift >= self.scale
                          THEN a * pow10_32(shift - self.scale)
                          ELSE a \div pow10_32(self.scale - shift)
             quotient == numerator \div b
         IN  Ok(Dec((quotient \div SCALE2) % 256, (quotient % SCALE2) % 256,
                    TARGET_SCALE_8, neg))

\* a checked addition that wraps the unchecked one
checked_add8_of_add(self, other) ==
    LET r == Call("add8", <<self, other>>)
    IN  IF r.tag = "abort" THEN Abort ELSE Some(r.val)

checked_add8(self, other) ==
    LET al == Call("align_frac8", <<self, other>>)
    IN  IF self.neg = other.neg
        THEN LET frac == al[1] + al[2]
                 overflow == IF frac >= al[4] THEN 1 ELSE 0
             IN  IF self.int + other.int > U8Max THEN None
                 ELSE IF self.int + other.int + overflow > U8Max THEN None
                 ELSE Some(Dec(self.int + other.int + overflow, frac - overflow * al[4],
                               al[3], self.neg))
        ELSE Some(Call("sub_with_cmp8", <<self.int, al[1], self.neg, other.int, al[2], other.neg, al[3], al[4]>>))

\* Some(self.sub(other)): a panic inside sub is a panic of checked_sub
checked_sub8(self, other) ==
    LET r == Call("sub8", <<self, other>>)
    IN  IF r.tag = "abort" THEN Abort ELSE Some(r.val)

checked_mul8(self, other) ==
    LET neg == self.neg # other.neg
        total_scale == self.scale + other.scale
        product == Call("combined8", <<self>>) * Call("combined8", <<other>>)
    IN  IF total_scale > TARGET_SCALE_8
        THEN LET reduced == product \div pow10_32(total_scale - TARGET_SCALE_8)
                 int_part == reduced \div SCALE2
             IN  IF int_part > U8Max THEN None
                 ELSE Some(Dec(int_part, reduced % SCALE2, TARGET_SCALE_8, neg))
        ELSE IF total_scale = 0
        THEN IF product > U8Max THEN None ELSE Some(Dec(product, 0, 0, neg))
        ELSE LET divisor == pow10_16(total_scale)
                 int_part == product \div divisor
             IN  IF int_part > U8Max THEN None
                 ELSE Some(Dec(int_part, product % divisor, total_scale, neg))

rem8(self, other) ==
    IF ~(other.int # 0 \/ other.frac # 0) THEN Abort
    ELSE LET q == Call("div8", <<self, other>>).val
             floored == Dec(q.int, 0, 0, q.neg)
             m == Call("mul8", <<floored, other>>)
         IN  IF m.tag = "abort" THEN Abort ELSE Call("sub8", <<self, m.val>>)

cmp_abs_8(a, b) ==
    IF a.int # b.int THEN OrdOf(a.int, b.int)
    ELSE IF a.scale = b.scale THEN OrdOf(a.frac, b.frac)
    ELSE IF a.scale > b.scale
    THEN OrdOf(a.frac, b.frac * pow10_u8(a.scale - b.scale))
    ELSE OrdOf(a.frac * pow10_u8(b.scale - a.scale), b.frac)

cmp8(self, other) ==
    IF Call("is_zero8", <<self>>) /\ Call("is_zero8", <<other>>) THEN Equal
    ELSE IF ~self.neg /\ other.neg THEN Greater
    ELSE IF self.neg /\ ~other.neg THEN Less
    ELSE IF ~self.neg THEN Call("cmp_abs_8", <<self, other>>)
    ELSE 0 - Call("cmp_abs_8", <<self, other>>)

neg8(self) == Dec(self.int, self.frac, self.scale, ~self.neg)

abs8(self) == Dec(self.int, self.frac, self.scale, FALSE)

\* the sequence of values fed to the hasher
hash8(self) ==
    LET c0 == Call("combined8", <<self>>)
        combined == IF c0 > 0
                    THEN IF c0 % 100 = 0 THEN c0 \div 100
                         ELSE IF c0 % 10 = 0 THEN c0 \div 10
                         ELSE c0
                    ELSE c0
    IN  IF combined # 0 THEN <<combined, self.neg>> ELSE <<combined>>

RECURSIVE isqrt_u32_loop(_, _)
\* the loop of isqrt_u32: x when the next iterate is not smaller
isqrt_u32_loop(n, x) ==
    LET q == n \div x
        x_new == (x \div 2) + (q \div 2) + (IF x % 2 = 1 /\ q % 2 = 1 THEN 1 ELSE 0)
    IN  IF x_new >= x THEN x ELSE isqrt_u32_loop(n, x_new)

\* floor(sqrt(n)) of a u32
isqrt_u32(n) ==
    IF n <= 1 THEN n
    ELSE LET bits == Call("BitLen", <<Call("Big", <<n>>)>>)
             x == Call("isqrt_u32_loop", <<n, 2 ^ ((bits + 1) \div 2)>>)
         IN  IF x * x > n THEN x - 1 ELSE x

\* the square root with one fractional digit, or the panic of its assertion
sqrt8(self) ==
    IF self.neg /\ ~is_zero8(self) THEN Abort
    ELSE IF is_zero8(self) THEN Ok(Dec(0, 0, 0, FALSE))
    ELSE LET combined == self.int * pow10_16(self.scale) + self.frac
             n == combined * pow10_32(2 - self.scale)
             x == Call("isqrt_u32", <<n>>)
         IN  Ok(Dec((x \div pow10_u8(1)) % 256, (x % pow10_u8(1)) % 256, 1, FALSE))

\* <<int, frac, scale, neg>> of a combined u16, or the panic of its assertion
from_combined8(n, scale, neg) ==
    IF scale = 0
    THEN IF n > U8Max THEN Abort ELSE Ok(Dec(n, 0, 0, neg))
    ELSE IF n \div pow10_16(scale) > U8Max THEN Abort
    ELSE Ok(Dec(n \div pow10_16(scale), (n % pow10_16(scale)) % 256, scale, neg))

\* round of the 8-bit tier: the steps of the wider tiers on a u16 combined
\* value
round8(self, decimal_places, mode) ==
    IF mode = "Fract" THEN Ok(Dec(0, self.frac, self.scale, self.neg))
    ELSE IF self.scale <= decimal_places THEN Ok(self)
    ELSE LET combined == self.int * pow10_16(self.scale) + self.frac
             divisor == pow10_16(self.scale - decimal_places)
             truncated == combined \div divisor
             remainder == combined % divisor
             up == Call("should_round_up", <<self.neg, Call("Big", <<truncated>>), Call("Big", <<remainder>>), Call("Big", <<divisor>>), mode>>)
         IN  Call("from_combined8", <<truncated + (IF up THEN 1 ELSE 0), decimal_places, self.neg>>)

floor8(self) == Call("round8", <<self, 0, "Floor">>)
ceil8(self) == Call("round8", <<self, 0, "Ceil">>)
trunc8(self) == Call("round8", <<self, 0, "Truncate">>)
fract8(self) == Call("round8", <<self, 0, "Fract">>)

\* ======================================================================
\* Integer widths
\* ======================================================================

\* 2^32, 2^64, 2^128 (decimal groups of four digits)
Pow2_32 == Call("BDec", <<<<42, 9496, 7296>>>>)
Pow2_64 == Call("BDec", <<<<1844, 6744, 737, 955, 1616>>>>)
Pow2_128 == Call("BDec", <<<<340, 2823, 6692, 938, 4634, 6337, 4607, 4317, 6821, 1456>>>>)

U32Max == (Pow2_32 (-) <<1>>)
U64Max == (Pow2_64 (-) <<1>>)
U128Max == (Pow2_128 (-) <<1>>)

\* x.wrapping_sub(y) and x.wrapping_add(y) at modulus m, for x, y < m
WrapSub(x, y, m) == IF (x \succeq y) THEN (x (-) y) ELSE ((x (+) m) (-) y)
WrapAdd(x, y, m) == ((x (+) y) %% m)

\* (b as uN) for a bool
BBool(c) == IF c THEN <<1>> ELSE <<>>

BOrd(x, y) == Call("BCmp", <<x, y>>)

\* the pow10 tables of util.rs for u64 and u128
pow10(exp) == Call("BPow10", <<exp>>)
pow10_128(exp) == Call("BPow10", <<exp>>)
SCALE9 == Call("BPow10", <<9>>)

\* ======================================================================
\* Bit operations on fixed-width unsigned integers
\* ======================================================================

\* 2^0, 2^16, 2^32, .. 2^512 as limbs
Pow2By16 == <<
    <<1>>,
    <<5536, 6>>,
    <<7296, 9496, 42>>,
    <<656, 7671, 4749, 281>>,
    <<1616, 955, 737, 6744, 1844>>,
    <<6176, 7470, 6291, 9614, 2581, 2089, 1>>,
    <<336, 4395, 5935, 4337, 1426, 1625, 9228, 7>>,
    <<96, 2922, 4963, 8530, 2762, 5348, 6858, 9229, 51>>,
    <<1456, 6821, 4317, 4607, 6337, 4634, 938, 6692, 2823, 340>>,
    <<416, 598, 3615, 2648, 1827, 5357, 3141, 3062, 1985, 745, 2230>>,
    <<2976, 3254, 6559, 3019, 1628, 8327, 3684, 1820, 9029, 7330, 163, 4615, 1>>,
    <<5136, 3647, 1951, 6171, 2397, 8943, 9196, 9668, 6473, 8053, 411, 9713, 5780, 9>>,
    <<2896, 3451, 4640, 5444, 235, 4161, 7666, 2320, 7894, 3835, 8076, 3866, 1735, 7710,
      62>>,
    <<2256, 3715, 9658, 8394, 6640, 6839, 6245, 3762, 6393, 2295, 3874, 5105, 301, 3933,
      3761, 411>>,
    <<9216, 1024, 1036, 2481, 4057, 4225, 7144, 7363, 6306, 7019, 1508, 6670, 9794, 5063,
      6671, 9946, 2695>>,
    <<9776, 9261, 2012, 1606, 5812, 6189, 6875, 8389, 8274, 8515, 4291, 5007, 3297, 2958,
      3843, 4778, 4706, 7668, 1>>,
    <<9936, 2963, 9131, 4007, 5758, 394, 564, 6564, 9846, 3269, 785, 6879, 5008, 7098,
      4235, 6195, 3731, 892, 5792, 11>>,
    <<5696, 8284, 8640, 2594, 2554, 8922, 4889, 2000, 474, 1715, 7190, 7290, 9370, 7352,
      1480, 3279, 5418, 2567, 360, 8855, 75>>,
    <<3056, 7553, 5333, 7012, 5949, 8931, 3976, 4046, 7174, 7347, 5079, 4561, 100, 2084,
      1468, 2248, 5538, 6421, 9786, 3640, 3232, 497>>,
    <<8016, 3435, 2989, 3387, 9621, 1007, 9670, 4718, 1782, 10, 5498, 2986, 3494, 7682,
      505, 4550, 3101, 2951, 7380, 5177, 6213, 2575, 3259>>,
    <<6576, 8693, 9620, 22, 4055, 7806, 9725, 2221, 6078, 7041, 6994, 6527, 2356, 452,
      6027, 2114, 6955, 7061, 5021, 8239, 9100, 5920, 8703, 1359, 2>>,
    <<4736, 7544, 3294, 4843, 8630, 590, 8760, 9194, 2369, 8810, 4931, 9312, 5595, 7716,
      8435, 2602, 6738, 5277, 2535, 4014, 1598, 2763, 8611, 463, 9984, 13>>,
    <<8496, 4621, 5027, 2440, 7421, 2800, 9232, 5393, 5043, 7691, 5754, 3553, 4950, 2449,
      6731, 9956, 8625, 7631, 8347, 8120, 2835, 6443, 8604, 9602, 4463, 7399, 91>>,
    <<3856, 7535, 9761, 787, 8650, 9435, 6706, 6152, 3397, 429, 4551, 7122, 6488, 106,
      8869, 529, 3252, 1747, 9008, 7027, 7780, 7032, 3970, 3063, 101, 119, 2269, 601>>,
    <<6816, 9030, 6279, 806, 1564, 8849, 6254, 1426, 6114, 7210, 7149, 7217, 4245, 9340,
      9482, 6667, 6544, 2704, 9739, 507, 6138, 143, 4010, 2790, 9212, 9447, 1963, 2006,
      3940>>,
    <<3376, 4749, 9727, 3171, 3590, 8314, 137, 5328, 6453, 4629, 4119, 168, 7622, 4064,
      3565, 659, 1283, 2235, 2829, 579, 3297, 1874, 301, 1720, 5919, 8965, 9085, 8086, 4987,
      5822, 2>>,
    <<9536, 2588, 9797, 8405, 5027, 9833, 2920, 6711, 8725, 8437, 3124, 7045, 6495, 8255,
      2478, 1590, 7009, 1368, 5992, 3885, 5988, 6071, 8619, 3893, 8856, 9031, 3316, 3641,
      1030, 3280, 9230, 16>>,
    <<1296, 9663, 3158, 4287, 4561, 8438, 9564, 1238, 5583, 4416, 9762, 1598, 2492, 2250,
      2312, 8485, 2245, 9183, 681, 6630, 5032, 8301, 4574, 8137, 2334, 3657, 6567, 8313,
      5943, 4832, 8776, 9067, 110>>,
    <<4656, 2861, 6016, 3534, 7793, 2661, 1606, 6252, 5607, 3565, 1376, 507, 6191, 2332,
      3979, 8113, 3928, 1806, 199, 8149, 602, 7318, 6068, 6413, 4353, 453, 8880, 3807, 4932,
      8905, 5606, 2429, 8387, 726>>,
    <<5616, 9009, 3328, 3652, 5212, 2370, 8260, 1598, 1326, 2590, 903, 5772, 6699, 525,
      3031, 9646, 8579, 3763, 3502, 4169, 6077, 6398, 407, 2140, 240, 6340, 2651, 3748,
      8507, 404, 3179, 3689, 6354, 4102, 4763>>,
    <<176, 629, 2853, 9288, 7567, 4479, 2895, 662, 1214, 6931, 5982, 9711, 3491, 306,
      3061, 120, 6562, 8197, 1738, 2537, 9596, 9156, 5085, 9711, 2664, 9814, 7485, 6305,
      9316, 2297, 1597, 3138, 9922, 315, 4855, 1217, 3>>,
    <<4336, 3297, 8330, 7065, 1783, 5341, 6078, 3807, 5044, 7972, 1775, 9304, 9821, 6900,
      7703, 4380, 8020, 1596, 5292, 6227, 83, 506, 571, 3427, 1549, 7769, 1278, 3540, 4701,
      7249, 6051, 2435, 8758, 8866, 9350, 9129, 4586, 20>>,
    <<4096, 608, 6490, 6433, 6994, 9465, 2811, 5388, 8537, 6050, 8648, 8581, 31, 2769,
      9034, 8166, 7429, 8018, 6976, 7354, 300, 1764, 4372, 5614, 7723, 9337, 5923, 5820,
      7936, 1274, 5846, 9820, 249, 9574, 9709, 9425, 7929, 780, 134>>>>

\* 2^k for k <= 512
Pow2(k) == (Pow2By16[k \div 16 + 1] (.) Call("Big", <<2 ^ (k % 16)>>))

RECURSIVE BitLenIn(_, _, _)
\* the largest n in lo..hi with 2^(n - 1) <= x, given that lo is one
BitLenIn(x, lo, hi) ==
    IF lo >= hi THEN lo
    ELSE LET mid == (lo + hi + 1) \div 2
         IN  IF (Call("Pow2", <<mid - 1>>) \preceq x) THEN BitLenIn(x, mid, hi)
                                      ELSE BitLenIn(x, lo, mid - 1)

\* the number of significant bits of x < 2^512
BitLen(x) == IF BZero(x) THEN 0 ELSE Call("BitLenIn", <<x, 1, 512>>)

\* x >> k, x << k at width w, x as uW
Shr(x, k) == (x (/) Call("Pow2", <<k>>))
Shl(x, k, w) == ((x (.) Call("Pow2", <<k>>)) %% Call("Pow2", <<w>>))
Lo(x, w) == (x %% Call("Pow2", <<w>>))

\* x.leading_zeros() at width w
leading_zeros(x, w) == w - Call("BitLen", <<x>>)


\* ======================================================================
\* wide.rs: u256 arithmetic on u128 halves and u64 limbs
\* ======================================================================

\* (x as u64), x >> 64, (hi << 64) | lo for lo < 2^64
Lo64(x) == (x %% Pow2_64)
Hi64(x) == (x (/) Pow2_64)
Join64(hi, lo) == ((hi (.) Pow2_64) (+) lo)

\* x.overflowing_sub(y) on u128: <<wrapped difference, borrow>>
overflowing_sub128(x, y) ==
    IF (x \succeq y) THEN <<(x (-) y), FALSE>> ELSE <<((x (+) Pow2_128) (-) y), TRUE>>

\* u128 * u128 -> <<high, low>>
mul_wide(a, b) ==
    LET a_lo == Call("Lo64", <<a>>)
        a_hi == Call("Hi64", <<a>>)
        b_lo == Call("Lo64", <<b>>)
        b_hi == Call("Hi64", <<b>>)
        ll == (a_lo (.) b_lo)
        hl == (a_hi (.) b_lo)
        lh == (a_lo (.) b_hi)
        hh == (a_hi (.) b_hi)
        mid == Call("WrapAdd", <<hl, lh, Pow2_128>>)
        mid_carry == BBool((mid \prec hl))
        lsum == (ll (+) Call("Shl", <<mid, 64, 128>>))
        low == (lsum %% Pow2_128)
        carry == BBool((lsum \succeq Pow2_128))
        high == (((hh (+) Call("Hi64", <<mid>>)) (+) Call("Shl", <<mid_carry, 64, 128>>)) (+) carry)
    IN  CASE Eval(<<a, b>>) ->
        CASE Eval(<<ll, hl, lh, hh>>) ->
        CASE Eval(<<mid, low>>) -> <<(high %% Pow2_128), low>>

\* lib.rs: u128 * u128 -> <<high, low>>; mid = hl + lh is a plain addition,
\* which panics when it overflows in a build with overflow checks and wraps
\* in a build without them
mul_wide_lib(a, b, overflow_checks) ==
    LET a_lo == Call("Lo64", <<a>>)
        a_hi == Call("Hi64", <<a>>)
        b_lo == Call("Lo64", <<b>>)
        b_hi == Call("Hi64", <<b>>)
        ll == (a_lo (.) b_lo)
        hl == (a_hi (.) b_lo)
        lh == (a_lo (.) b_hi)
        hh == (a_hi (.) b_hi)
        mid == Call("WrapAdd", <<hl, lh, Pow2_128>>)
        mid_carry == BBool((mid \prec hl))
        lsum == (ll (+) Call("Shl", <<mid, 64, 128>>))
        low == (lsum %% Pow2_128)
        carry == BBool((lsum \succeq Pow2_128))
        high == (((hh (+) Call("Hi64", <<mid>>)) (+) Call("Shl", <<mid_carry, 64, 128>>)) (+) carry)
    IN  IF overflow_checks /\ ((hl (+) lh) \succeq Pow2_128) THEN Abort
        ELSE Ok(<<(high %% Pow2_128), low>>)

\* <<n3, n2, n1, n0>> of (high, low) << shift, for shift < 128
shl_u256(high, low, shift) ==
    IF shift = 0
    THEN <<Call("Hi64", <<high>>), Call("Lo64", <<high>>), Call("Hi64", <<low>>), Call("Lo64", <<low>>)>>
    ELSE LET high_shifted == (Call("Shl", <<high, shift, 128>>) (+) Call("Shr", <<low, 128 - shift>>))
             low_shifted == Call("Shl", <<low, shift, 128>>)
         IN  <<Call("Hi64", <<high_shifted>>), Call("Lo64", <<high_shifted>>),
               Call("Hi64", <<low_shifted>>), Call("Lo64", <<low_shifted>>)>>

\* u128 / u64 -> <<quotient, remainder>>
div_u128_by_u64(n, d) == Call("BDivMod", <<n, d>>)

\* u256 / u64 -> u128 quotient, or the panic of assert!(q3 == 0 && q2 == 0)
div_wide_by_u64(high, low, divisor) ==
    LET n3 == Call("Hi64", <<high>>)
        n2 == Call("Lo64", <<high>>)
        n1 == Call("Hi64", <<low>>)
        n0 == Call("Lo64", <<low>>)
        d3 == Call("div_u128_by_u64", <<n3, divisor>>)
        d2 == Call("div_u128_by_u64", <<Call("Join64", <<d3[2], n2>>), divisor>>)
        d1 == Call("div_u128_by_u64", <<Call("Join64", <<d2[2], n1>>), divisor>>)
        d0 == Call("div_u128_by_u64", <<Call("Join64", <<d1[2], n0>>), divisor>>)
    IN  CASE Eval(d3) -> CASE Eval(d2) -> CASE Eval(d1) -> CASE Eval(d0) ->
        IF ~(BZero(d3[1]) /\ BZero(d2[1])) THEN Abort
        ELSE Ok((Call("Shl", <<d1[1], 64, 128>>) (+) d0[1]))

\* the estimate left as it is
refine_3by2_never(q, r_hat, n0, d1, d0) == <<q, r_hat, FALSE>>

\* one refinement of the quotient estimate q with remainder r_hat:
\* <<q, r_hat, whether q was decremented>>
refine_3by2(q, r_hat, n0, d1, d0) ==
    IF (r_hat \preceq U64Max) /\ ((q (.) d0) \succ Call("Join64", <<r_hat, n0>>))
    THEN <<(q (-) <<1>>), (r_hat (+) d1), TRUE>>
    ELSE <<q, r_hat, FALSE>>

\* n - q_hat * d with the add-back of an estimate one too large
correct_3by2(q_hat, n2, n1, n0, d1, d0) ==
    LET product == (q_hat (.) d0)
        product_hi == ((q_hat (.) d1) (+) Call("Hi64", <<product>>))
        s_lo == Call("overflowing_sub128", <<n0, Call("Lo64", <<product>>)>>)
        s_mid == Call("overflowing_sub128", <<n1, (Call("Lo64", <<product_hi>>) (+) BBool(s_lo[2]))>>)
        sub_hi == Call("WrapSub", <<n2, (Call("Hi64", <<product_hi>>) (+) BBool(s_mid[2])), Pow2_128>>)
    IN  Call("addback_3by2", <<q_hat, s_lo[1], s_mid[1], sub_hi, n2, d1, d0>>)

addback_3by2(q_hat, sub_lo, sub_mid, sub_hi, n2, d1, d0) ==
    IF (sub_hi \succ n2)
    THEN LET add_lo == Call("WrapAdd", <<sub_lo, d0, Pow2_128>>)
             carry == BBool((add_lo \prec sub_lo))
             add_mid == Call("WrapAdd", <<sub_mid, (d1 (+) carry), Pow2_128>>)
         IN  <<Call("WrapSub", <<q_hat, <<1>>, Pow2_64>>),
               (Call("Shl", <<add_mid, 64, 128>>) (+) Call("Lo64", <<add_lo>>))>>
    ELSE <<q_hat, (Call("Shl", <<Call("Lo64", <<sub_mid>>), 64, 128>>) (+) Call("Lo64", <<sub_lo>>))>>

\* the estimate after at most two refinements
estimate_3by2(q0, r0, n0, d1, d0) ==
    LET s1 == Call("refine_3by2", <<q0, r0, n0, d1, d0>>)
    IN  IF s1[3] THEN Call("refine_3by2", <<s1[1], s1[2], n0, d1, d0>>)[1] ELSE s1[1]

\* (n2, n1, n0) / (d1, d0) on u64 limbs -> <<q, remainder as u128>>
div_3by2(n2, n1, n0, d1, d0) ==
    LET n_hi == Call("Join64", <<n2, n1>>)
        q0 == IF (n2 \succeq d1) THEN U64Max ELSE Call("Lo64", <<(n_hi (/) d1)>>)
        r0 == (n_hi (-) (q0 (.) d1))
        q_hat == Call("estimate_3by2", <<q0, r0, n0, d1, d0>>)
    IN  Call("correct_3by2", <<q_hat, n2, n1, n0, d1, d0>>)

\* (n3, n2, n1, n0) / (d1, d0) -> <<q1, q0>>
div_4by2(n3, n2, n1, n0, d1, d0) ==
    LET s1 == Call("div_3by2", <<n3, n2, n1, d1, d0>>)
        r1_hi == Call("Hi64", <<s1[2]>>)
        r1_lo == Call("Lo64", <<s1[2]>>)
        s0 == Call("div_3by2", <<r1_hi, r1_lo, n0, d1, d0>>)
    IN  CASE Eval(s1) -> CASE Eval(s0) -> <<s1[1], s0[1]>>

\* u256 / u128 -> u128, or the panic of its assertions
div_wide(high, low, divisor) ==
    CASE Eval(<<high, low, divisor>>) ->
    IF BZero(divisor) THEN Abort
    ELSE IF BZero(high) THEN Ok((low (/) divisor))
    ELSE IF ~(high \prec divisor) THEN Abort
    ELSE LET d_hi == Call("Hi64", <<divisor>>)
         IN  IF BZero(d_hi) THEN Call("div_wide_by_u64", <<high, low, Call("Lo64", <<divisor>>)>>)
             ELSE LET shift == Call("leading_zeros", <<divisor, 128>>)
                      divisor_norm == Call("Shl", <<divisor, shift, 128>>)
                      n == Call("shl_u256", <<high, low, shift>>)
                      q == Call("div_4by2", <<n[1], n[2], n[3], n[4], Call("Hi64", <<divisor_norm>>), Call("Lo64", <<divisor_norm>>)>>)
                  IN  CASE Eval(<<divisor_norm, n>>) ->
                      CASE Eval(q) -> Ok(Call("Join64", <<q[1], q[2]>>))


\* div_3by2 with the number of refinements of its estimate and of add-backs:
\* <<q, remainder, corrections, add-backs>>
steps_3by2(n2, n1, n0, d1, d0) ==
    LET n_hi == Call("Join64", <<n2, n1>>)
        q0 == IF (n2 \succeq d1) THEN U64Max ELSE Call("Lo64", <<(n_hi (/) d1)>>)
        r0 == (n_hi (-) (q0 (.) d1))
        q_hat == Call("estimate_3by2", <<q0, r0, n0, d1, d0>>)
        out == Call("div_3by2", <<n2, n1, n0, d1, d0>>)
    IN  <<out[1], out[2], (q0 (-) q_hat), Call("WrapSub", <<q_hat, out[1], Pow2_64>>)>>

\* the two div_3by2 steps of div_wide on a divisor with a non-zero high
\* limb: the step'th one, on the operands div_4by2 hands it
step_of_div_wide(high, low, divisor, step) ==
    LET shift == Call("leading_zeros", <<divisor, 128>>)
        divisor_norm == Call("Shl", <<divisor, shift, 128>>)
        d1 == Call("Hi64", <<divisor_norm>>)
        d0 == Call("Lo64", <<divisor_norm>>)
        n == Call("shl_u256", <<high, low, shift>>)
        s1 == Call("steps_3by2", <<n[1], n[2], n[3], d1, d0>>)
    IN  IF step = 1 THEN s1
        ELSE Call("steps_3by2", <<Call("Hi64", <<s1[2]>>), Call("Lo64", <<s1[2]>>), n[4], d1, d0>>)

\* ======================================================================
\* wide.rs: u512 arithmetic on u128 limbs
\* ======================================================================

\* x.overflowing_add(y) on u128: <<wrapped sum, carry>>
overflowing_add128(x, y) ==
    LET t == (x (+) y)
    IN  IF (t \succeq Pow2_128) THEN <<(t (-) Pow2_128), TRUE>> ELSE <<t, FALSE>>

\* u256 * u256 -> <<w3, w2, w1, w0>>
mul_u256(a, b) ==
    LET ll == Call("mul_wide", <<a[2], b[2]>>)
        hl == Call("mul_wide", <<a[1], b[2]>>)
        lh == Call("mul_wide", <<a[2], b[1]>>)
        hh == Call("mul_wide", <<a[1], b[1]>>)
        w0 == ll[2]
        x1 == Call("overflowing_add128", <<ll[1], hl[2]>>)
        y1 == Call("overflowing_add128", <<x1[1], lh[2]>>)
        carry1 == (BBool(x1[2]) (+) BBool(y1[2]))
        x2 == Call("overflowing_add128", <<hl[1], lh[1]>>)
        y2 == Call("overflowing_add128", <<x2[1], hh[2]>>)
        z2 == Call("overflowing_add128", <<y2[1], carry1>>)
        carry2 == ((BBool(x2[2]) (+) BBool(y2[2])) (+) BBool(z2[2]))
        w3 == ((hh[1] (+) carry2) %% Pow2_128)
    IN  CASE Eval(<<a, b>>) ->
        CASE Eval(ll) -> CASE Eval(hl) -> CASE Eval(lh) -> CASE Eval(hh) ->
        CASE Eval(y1) -> CASE Eval(z2) -> <<w3, z2[1], y1[1], w0>>

\* the block  (hi, lo) - q * divisor  with assert!(sub_hi == 0): the low limb
sub_q_times_d(hi, lo, q, divisor) ==
    LET p == Call("mul_wide", <<q, divisor>>)
        sl == Call("overflowing_sub128", <<lo, p[2]>>)
        sub_hi == Call("WrapSub", <<Call("WrapSub", <<hi, p[1], Pow2_128>>), BBool(sl[2]), Pow2_128>>)
    IN  CASE Eval(p) -> IF ~BZero(sub_hi) THEN Abort ELSE Ok(sl[1])

\* u512 / u128 -> u256 quotient <<hi, lo>>, saturated when it does not fit
div_u512_by_u128(w3, w2, w1, w0, divisor) ==
    CASE Eval(<<w3, w2, w1, w0, divisor>>) ->
    IF BZero(divisor) THEN Abort
    ELSE LET q3 == IF (w3 \succeq divisor) THEN (w3 (/) divisor) ELSE <<>>
             r3 == IF (w3 \succeq divisor) THEN (w3 %% divisor) ELSE w3
             q2 == Call("div_wide", <<r3, w2, divisor>>)
         IN  CASE Eval(<<q3, r3>>) ->
             IF q2.tag = "abort" THEN Abort
             ELSE LET r2_full == Call("sub_q_times_d", <<r3, w2, q2.val, divisor>>)
                  IN  IF r2_full.tag = "abort" THEN Abort
                      ELSE LET q1 == Call("div_wide", <<r2_full.val, w1, divisor>>)
                           IN  IF q1.tag = "abort" THEN Abort
                               ELSE LET r1_full == Call("sub_q_times_d", <<r2_full.val, w1, q1.val, divisor>>)
                                    IN  IF r1_full.tag = "abort" THEN Abort
                                        ELSE LET q0 == Call("div_wide", <<r1_full.val, w0, divisor>>)
                                             IN  IF q0.tag = "abort" THEN Abort
                                                 ELSE IF ~BZero(q3) \/ ~BZero(q2.val)
                                                 THEN Ok(<<U128Max, U128Max>>)
                                                 ELSE Ok(<<q1.val, q0.val>>)

\* u256 divmod u128 -> <<<<q_hi, q_lo>>, remainder>>
divmod_u256(hi, lo, divisor) ==
    CASE Eval(<<hi, lo, divisor>>) ->
    IF BZero(divisor) THEN Abort
    ELSE IF BZero(hi) THEN Ok(<<<<<<>>, (lo (/) divisor)>>, (lo %% divisor)>>)
    ELSE IF (hi \prec divisor)
    THEN LET q == Call("div_wide", <<hi, lo, divisor>>)
         IN  IF q.tag = "abort" THEN Abort
             ELSE LET r == Call("sub_q_times_d", <<hi, lo, q.val, divisor>>)
                  IN  IF r.tag = "abort" THEN Abort
                      ELSE Ok(<<<<<<>>, q.val>>, r.val>>)
    ELSE LET q_hi == (hi (/) divisor)
             r_hi == (hi %% divisor)
             q_lo == Call("div_wide", <<r_hi, lo, divisor>>)
         IN  CASE Eval(<<q_hi, r_hi>>) ->
             IF q_lo.tag = "abort" THEN Abort
             ELSE LET r == Call("sub_q_times_d", <<r_hi, lo, q_lo.val, divisor>>)
                  IN  IF r.tag = "abort" THEN Abort
                      ELSE Ok(<<<<q_hi, q_lo.val>>, r.val>>)

\* <<s3, s2, s1, s0>> of (w3, w2, w1, w0) << shift, for shift < 128
shl_u512(w3, w2, w1, w0, shift) ==
    IF shift = 0 THEN <<w3, w2, w1, w0>>
    ELSE <<(Call("Shl", <<w3, shift, 128>>) (+) Call("Shr", <<w2, 128 - shift>>)),
           (Call("Shl", <<w2, shift, 128>>) (+) Call("Shr", <<w1, 128 - shift>>)),
           (Call("Shl", <<w1, shift, 128>>) (+) Call("Shr", <<w0, 128 - shift>>)),
           Call("Shl", <<w0, shift, 128>>)>>

\* <<hi, lo>> > <<hi2, lo2>> as  ch > r_lo || (ch == r_lo && cl > n0)
gt_pair(ch, cl, r_lo, n0) == (ch \succ r_lo) \/ (ch = r_lo /\ (cl \succ n0))

\* one refinement of the estimate q with remainder <<r_hi, r_lo>>:
\* <<q, r_hi, r_lo, whether q was decremented>>
refine_3by2_128(q, r_hi, r_lo, n0, d1, d0) ==
    LET c == Call("mul_wide", <<q, d0>>)
        nr == Call("overflowing_add128", <<r_lo, d1>>)
    IN  IF BZero(r_hi) /\ Call("gt_pair", <<c[1], c[2], r_lo, n0>>)
        THEN <<Call("WrapSub", <<q, <<1>>, Pow2_128>>), (r_hi (+) BBool(nr[2])), nr[1], TRUE>>
        ELSE <<q, r_hi, r_lo, FALSE>>

\* the estimate after at most two refinements
estimate_3by2_128(q0, r_hi, r_lo, n0, d1, d0) ==
    LET s1 == Call("refine_3by2_128", <<q0, r_hi, r_lo, n0, d1, d0>>)
    IN  IF s1[4] THEN Call("refine_3by2_128", <<s1[1], s1[2], s1[3], n0, d1, d0>>)[1] ELSE s1[1]

\* n - q_hat * d: <<s2, t1b, t0>> with the borrows of the source
sub_3by2_128(q_hat, n2, n1, n0, d1, d0) ==
    LET qd1 == Call("mul_wide", <<q_hat, d1>>)
        qd0 == Call("mul_wide", <<q_hat, d0>>)
        m == Call("overflowing_add128", <<qd1[2], qd0[1]>>)
        top == ((qd1[1] (+) BBool(m[2])) %% Pow2_128)
        t0 == Call("overflowing_sub128", <<n0, qd0[2]>>)
        t1 == Call("overflowing_sub128", <<n1, m[1]>>)
    IN  Call("borrow_3by2_128", <<n2, top, t0, t1>>)

borrow_3by2_128(n2, top, t0, t1) ==
    LET t1b == Call("overflowing_sub128", <<t1[1], BBool(t0[2])>>)
        s2 == Call("WrapSub", <<Call("WrapSub", <<Call("WrapSub", <<n2, top, Pow2_128>>), BBool(t1[2]), Pow2_128>>), BBool(t1b[2]), Pow2_128>>)
    IN  <<s2, t1b[1], t0[1]>>

\* the add-back of an estimate one too large
addback_3by2_128(q_hat, s, n2, d1, d0) ==
    IF (s[1] \succ n2)
    THEN LET a0 == Call("overflowing_add128", <<s[3], d0>>)
             a1 == Call("overflowing_add128", <<s[2], d1>>)
         IN  <<Call("WrapSub", <<q_hat, <<1>>, Pow2_128>>),
               <<Call("WrapAdd", <<a1[1], BBool(a0[2]), Pow2_128>>), a0[1]>>>>
    ELSE <<q_hat, <<s[2], s[3]>>>>

\* the division once the first estimate q0 is known
finish_3by2_128(q0, n2, n1, n0, d1, d0) ==
    LET p == Call("mul_wide", <<q0, d1>>)
        rl == Call("overflowing_sub128", <<n1, p[2]>>)
        r_hi == Call("WrapSub", <<Call("WrapSub", <<n2, p[1], Pow2_128>>), BBool(rl[2]), Pow2_128>>)
        q_hat == Call("estimate_3by2_128", <<q0, r_hi, rl[1], n0, d1, d0>>)
    IN  Call("addback_3by2_128", <<q_hat, Call("sub_3by2_128", <<q_hat, n2, n1, n0, d1, d0>>), n2, d1, d0>>)

\* (n2, n1, n0) / (d1, d0) on u128 limbs -> <<q, <<rem_hi, rem_lo>>>>
div_3by2_128(n2, n1, n0, d1, d0) ==
    LET qe == IF (n2 \succeq d1) THEN Ok(U128Max) ELSE Call("div_wide", <<n2, n1, d1>>)
    IN  IF qe.tag = "abort" THEN Abort
        ELSE Ok(Call("finish_3by2_128", <<qe.val, n2, n1, n0, d1, d0>>))

\* div_3by2_128 with the number of refinements of its estimate and of
\* add-backs: <<q, <<rem_hi, rem_lo>>, corrections, add-backs>>
steps_3by2_128(n2, n1, n0, d1, d0) ==
    LET qe == IF (n2 \succeq d1) THEN Ok(U128Max) ELSE Call("div_wide", <<n2, n1, d1>>)
        p == Call("mul_wide", <<qe.val, d1>>)
        rl == Call("overflowing_sub128", <<n1, p[2]>>)
        r_hi == Call("WrapSub", <<Call("WrapSub", <<n2, p[1], Pow2_128>>), BBool(rl[2]), Pow2_128>>)
        q_hat == Call("estimate_3by2_128", <<qe.val, r_hi, rl[1], n0, d1, d0>>)
        out == Call("div_3by2_128", <<n2, n1, n0, d1, d0>>)
    IN  IF qe.tag = "abort" THEN Abort
        ELSE Ok(<<out.val[1], out.val[2], (qe.val (-) q_hat),
                  Call("WrapSub", <<q_hat, out.val[1], Pow2_128>>)>>)

\* u512 / u256 -> u256 quotient <<hi, lo>>
div_u512_by_u256(w3, w2, w1, w0, d_hi, d_lo) ==
    CASE Eval(<<w3, w2, w1, w0, d_hi, d_lo>>) ->
    IF ~(~BZero(d_hi) \/ ~BZero(d_lo)) THEN Abort
    ELSE IF BZero(d_hi) THEN Call("div_u512_by_u128", <<w3, w2, w1, w0, d_lo>>)
    ELSE LET shift == Call("leading_zeros", <<d_hi, 128>>)
             d1 == IF shift = 0 THEN d_hi
                   ELSE (Call("Shl", <<d_hi, shift, 128>>) (+) Call("Shr", <<d_lo, 128 - shift>>))
             d0 == IF shift = 0 THEN d_lo ELSE Call("Shl", <<d_lo, shift, 128>>)
             n == Call("shl_u512", <<w3, w2, w1, w0, shift>>)
             s1 == Call("div_3by2_128", <<n[1], n[2], n[3], d1, d0>>)
         IN  CASE Eval(<<d1, d0, n>>) ->
             IF s1.tag = "abort" THEN Abort
             ELSE LET s0 == Call("div_3by2_128", <<s1.val[2][1], s1.val[2][2], n[4], d1, d0>>)
                  IN  IF s0.tag = "abort" THEN Abort
                      ELSE Ok(<<s1.val[1], s0.val[1]>>)


\* ======================================================================
\* wide.rs: integer square roots
\* ======================================================================

\* x & 1 == 1
Odd(x) == Len(x) > 0 /\ x[1] % 2 = 1

\* (x >> 1) + (q >> 1) + (x & q & 1)
newton_step(x, q) ==
    ((Call("Shr", <<x, 1>>) (+) Call("Shr", <<q, 1>>)) (+) BBool(Odd(x) /\ Odd(q)))

\* the loop of isqrt_u128: x when the next iterate is not smaller
RECURSIVE isqrt_u128_loop(_, _)
isqrt_u128_loop(n, x) ==
    LET x_new == Call("newton_step", <<x, (n (/) x)>>)
    IN  IF (x_new \succeq x) THEN x ELSE isqrt_u128_loop(n, x_new)

\* floor(sqrt(n)) of a u128
isqrt_u128(n) ==
    IF (n \preceq <<1>>) THEN n
    ELSE LET bits == 128 - Call("leading_zeros", <<n, 128>>)
             x == Call("isqrt_u128_loop", <<n, Call("Pow2", <<(bits + 1) \div 2>>)>>)
         IN  IF ((x (.) x) \succeq Pow2_128) \/ ((x (.) x) \succ n) THEN (x (-) <<1>>) ELSE x

\* the loop of isqrt_u256, or the panic of div_wide
RECURSIVE isqrt_u256_loop(_, _, _)
isqrt_u256_loop(n_hi, n_lo, x) ==
    LET n_div_x == IF (n_hi \succeq x) THEN Ok(U128Max) ELSE Call("div_wide", <<n_hi, n_lo, x>>)
    IN  IF n_div_x.tag = "abort" THEN Abort
        ELSE LET x_new == Call("newton_step", <<x, n_div_x.val>>)
             IN  IF (x_new \succeq x) THEN Ok(x) ELSE isqrt_u256_loop(n_hi, n_lo, x_new)

\* floor(sqrt(n_hi * 2^128 + n_lo))
isqrt_u256(n_hi, n_lo) ==
    IF BZero(n_hi) THEN Ok(Call("isqrt_u128", <<n_lo>>))
    ELSE LET total_bits == 256 - Call("leading_zeros", <<n_hi, 128>>)
             shift == (total_bits + 1) \div 2
             r == Call("isqrt_u256_loop", <<n_hi, n_lo, IF shift >= 128 THEN U128Max ELSE Call("Pow2", <<shift>>)>>)
         IN  IF r.tag = "abort" THEN Abort
             ELSE Call("isqrt_u256_fix", <<n_hi, n_lo, r.val, Call("mul_wide", <<r.val, r.val>>)>>)

\* x -= 1 when x * x = <<sq_hi, sq_lo>> exceeds the operand
isqrt_u256_fix(n_hi, n_lo, x, sq) ==
    IF Call("gt_pair", <<sq[1], sq[2], n_hi, n_lo>>) THEN Ok((x (-) <<1>>)) ELSE Ok(x)

\* the value of the limbs <<w3, w2, w1, w0>>
u512(w) ==
    ((((((w[1] (.) Pow2_128) (+) w[2]) (.) Pow2_128) (+) w[3]) (.) Pow2_128) (+) w[4])

\* (x + q) / 2 on u256 pairs, with the carries of the source
newton_step_u256(x, q) ==
    LET s_lo == Call("overflowing_add128", <<x[2], q[2]>>)
        s_hi == Call("overflowing_add128", <<x[1], q[1]>>)
        s_hi2 == Call("overflowing_add128", <<s_hi[1], BBool(s_lo[2])>>)
    IN  Call("halve_u256", <<BBool(s_hi[2] \/ s_hi2[2]), s_hi2[1], s_lo[1]>>)

\* ((carry << 127) | (sum_hi >> 1), ((sum_hi & 1) << 127) | (sum_lo >> 1))
halve_u256(carry, sum_hi, sum_lo) ==
    <<(Call("Shl", <<carry, 127, 128>>) (+) Call("Shr", <<sum_hi, 1>>)),
      (Call("Shl", <<BBool(Odd(sum_hi)), 127, 128>>) (+) Call("Shr", <<sum_lo, 1>>))>>

\* the loop of isqrt_u512 on the pair x, or the panic of the division
RECURSIVE isqrt_u512_loop(_, _)
isqrt_u512_loop(w, x) ==
    LET n_div_x == Call("div_u512_by_u256", <<w[1], w[2], w[3], w[4], x[1], x[2]>>)
    IN  IF n_div_x.tag = "abort" THEN Abort
        ELSE LET x_new == Call("newton_step_u256", <<x, n_div_x.val>>)
             IN  IF (x_new[1] \succ x[1]) \/ (x_new[1] = x[1] /\ (x_new[2] \succeq x[2]))
                 THEN Ok(x)
                 ELSE isqrt_u512_loop(w, x_new)

\* x - 1 on a u256 pair when x * x = sq exceeds the operand w
isqrt_u512_fix(w, x, sq) ==
    IF (Call("u512", <<sq>>) \succ Call("u512", <<w>>))
    THEN IF BZero(x[2]) THEN Ok(<<Call("WrapSub", <<x[1], <<1>>, Pow2_128>>), U128Max>>)
         ELSE Ok(<<x[1], (x[2] (-) <<1>>)>>)
    ELSE Ok(x)

\* floor(sqrt(w3, w2, w1, w0)) as a u256 pair <<hi, lo>>
isqrt_u512(w3, w2, w1, w0) ==
    IF BZero(w3) /\ BZero(w2)
    THEN LET r == Call("isqrt_u256", <<w1, w0>>)
         IN  IF r.tag = "abort" THEN Abort ELSE Ok(<<<<>>, r.val>>)
    ELSE LET total_bits == IF ~BZero(w3) THEN 384 + (128 - Call("leading_zeros", <<w3, 128>>))
                           ELSE 256 + (128 - Call("leading_zeros", <<w2, 128>>))
             shift == (total_bits + 1) \div 2
             x0 == IF shift >= 256 THEN <<U128Max, U128Max>>
                   ELSE IF shift >= 128 THEN <<Call("Pow2", <<shift - 128>>), <<>>>>
                   ELSE <<<<>>, Call("Pow2", <<shift>>)>>
             r == Call("isqrt_u512_loop", <<<<w3, w2, w1, w0>>, x0>>)
         IN  IF r.tag = "abort" THEN Abort
             ELSE Call("isqrt_u512_fix", <<<<w3, w2, w1, w0>>, r.val, Call("mul_u256", <<r.val, r.val>>)>>)


\* ======================================================================
\* round_mode.rs
\* ======================================================================

RoundMode == {"Floor", "Ceil", "Truncate", "HalfUp", "HalfDown", "HalfEven", "Fract"}

\* should_round_up of the tiers, on a truncated value, a remainder and a
\* divisor of any width
should_round_up(neg, truncated, remainder, divisor, mode) ==
    IF BZero(remainder) THEN FALSE
    ELSE LET half == (divisor (/) <<2>>)
         IN  CASE mode = "Floor" -> neg
               [] mode = "Ceil" -> ~neg
               [] mode = "Truncate" -> FALSE
               [] mode = "HalfUp" -> (remainder \succeq half)
               [] mode = "HalfDown" -> (remainder \succ half)
               [] mode = "HalfEven" -> (remainder \succ half) \/ (remainder = half /\ Odd(truncated))
               [] mode = "Fract" -> FALSE

\* ======================================================================
\* AncDec32: u32 int, u32 frac, scale 0..9
\* ======================================================================

is_zero32(d) == BZero(d.int) /\ BZero(d.frac)

align_frac32(self, other) ==
    IF self.scale = other.scale
    THEN <<self.frac, other.frac, self.scale, Call("BPow10", <<self.scale>>)>>
    ELSE IF self.scale > other.scale
    THEN <<self.frac, (other.frac (.) Call("BPow10", <<self.scale - other.scale>>)),
           self.scale, Call("BPow10", <<self.scale>>)>>
    ELSE <<(self.frac (.) Call("BPow10", <<other.scale - self.scale>>)), other.frac,
           other.scale, Call("BPow10", <<other.scale>>)>>

add_aligned32(a_int, a_frac, b_int, b_frac, scale, limit) ==
    LET frac == (a_frac (+) b_frac)
        overflow == BBool((frac \succeq limit))
        s1 == (a_int (+) b_int)
        s2 == (s1 (+) overflow)
    IN  IF (s1 \succ U32Max) \/ (s2 \succ U32Max)
        THEN Abort
        ELSE Ok(<<s2, (frac (-) (overflow (.) limit)), scale>>)

sub_with_cmp32(a_int, a_frac, a_neg, b_int, b_frac, b_neg, scale, limit) ==
    IF (a_int \succ b_int) \/ (a_int = b_int /\ (a_frac \succeq b_frac))
    THEN LET borrow == BBool((a_frac \prec b_frac))
         IN  Dec(((a_int (-) b_int) (-) borrow),
                 Call("WrapAdd", <<Call("WrapSub", <<a_frac, b_frac, Pow2_32>>), (borrow (.) limit), Pow2_32>>),
                 scale, a_neg)
    ELSE LET borrow == BBool((b_frac \prec a_frac))
         IN  Dec(((b_int (-) a_int) (-) borrow),
                 Call("WrapAdd", <<Call("WrapSub", <<b_frac, a_frac, Pow2_32>>), (borrow (.) limit), Pow2_32>>),
                 scale, b_neg)

from_combined32(n, scale, neg) ==
    IF scale = 0
    THEN IF (n \succ U32Max) THEN Abort ELSE Ok(Dec(n, <<>>, 0, neg))
    ELSE LET qr == Call("BDivMod", <<n, Call("BPow10", <<scale>>)>>)
         IN  IF (qr[1] \succ U32Max) THEN Abort
             ELSE Ok(Dec(qr[1], qr[2], scale, neg))

checked_from_combined32(n, scale, neg) ==
    IF scale = 0
    THEN IF (n \succ U32Max) THEN None ELSE Some(Dec(n, <<>>, 0, neg))
    ELSE LET qr == Call("BDivMod", <<n, Call("BPow10", <<scale>>)>>)
         IN  IF (qr[1] \succ U32Max) THEN None
             ELSE Some(Dec(qr[1], qr[2], scale, neg))

\* u64 combined value int * 10^scale + frac
combined32(d) == ((d.int (.) Call("pow10", <<d.scale>>)) (+) d.frac)

add32(self, other) ==
    LET al == Call("align_frac32", <<self, other>>)
    IN  IF self.neg = other.neg
        THEN LET r == Call("add_aligned32", <<self.int, al[1], other.int, al[2], al[3], al[4]>>)
             IN  IF r.tag = "abort" THEN Abort
                 ELSE Ok(Dec(r.val[1], r.val[2], r.val[3], self.neg))
        ELSE Ok(Call("sub_with_cmp32", <<self.int, al[1], self.neg, other.int, al[2], other.neg, al[3], al[4]>>))

sub32(self, other) ==
    LET al == Call("align_frac32", <<self, other>>)
        other_neg == ~other.neg
    IN  IF self.neg = other_neg
        THEN LET r == Call("add_aligned32", <<self.int, al[1], other.int, al[2], al[3], al[4]>>)
             IN  IF r.tag = "abort" THEN Abort
                 ELSE Ok(Dec(r.val[1], r.val[2], r.val[3], self.neg))
        ELSE Ok(Call("sub_with_cmp32", <<self.int, al[1], self.neg, other.int, al[2], other_neg, al[3], al[4]>>))

\* <<result, final_scale>> of mul and checked_mul, <<>> where neither branch
\* applies; (product / divisor) as u64 keeps the low 64 bits
mul_reduce32(self, other) ==
    LET total_scale == self.scale + other.scale
        product == (Call("combined32", <<self>>) (.) Call("combined32", <<other>>))
    IN  IF total_scale > TARGET_SCALE_32
        THEN <<((product (/) Call("pow10_128", <<total_scale - TARGET_SCALE_32>>)) %% Pow2_64),
               TARGET_SCALE_32>>
        ELSE IF (product \preceq U64Max) THEN <<product, total_scale>>
        ELSE <<>>

mul32(self, other) ==
    LET r == Call("mul_reduce32", <<self, other>>)
    IN  IF r = <<>> THEN Abort
        ELSE Call("from_combined32", <<r[1], r[2], self.neg # other.neg>>)

checked_mul32(self, other) ==
    LET r == Call("mul_reduce32", <<self, other>>)
    IN  IF r = <<>> THEN None
        ELSE Call("checked_from_combined32", <<r[1], r[2], self.neg # other.neg>>)

\* a division that rounds the last digit to nearest
div32_rounding(self, other) ==
    IF ~(~BZero(other.int) \/ ~BZero(other.frac)) THEN Abort
    ELSE LET a == Call("combined32", <<self>>)
             b == Call("combined32", <<other>>)
             n == (a (.) Call("pow10_128", <<TARGET_SCALE_32 + other.scale - self.scale>>))
             quotient == (((n (+) (b (/) <<2>>)) (/) b) %% Pow2_64)
         IN  Ok(Dec(((quotient (/) SCALE9) %% Pow2_32), (quotient %% SCALE9), TARGET_SCALE_32,
                    self.neg # other.neg))

div32(self, other) ==
    IF ~(~BZero(other.int) \/ ~BZero(other.frac)) THEN Abort
    ELSE LET a == Call("combined32", <<self>>)
             b == Call("combined32", <<other>>)
             shift == TARGET_SCALE_32 + other.scale
             quotient == IF shift >= self.scale
                         THEN (((a (.) Call("pow10_128", <<shift - self.scale>>)) (/) b) %% Pow2_64)
                         ELSE (a (/) ((b (.) Call("pow10", <<self.scale - shift>>)) %% Pow2_64))
             q == (quotient (/) SCALE9)
             r == (quotient (-) (q (.) SCALE9))
         IN  Ok(Dec((q %% Pow2_32), (r %% Pow2_32), TARGET_SCALE_32,
                    self.neg # other.neg))

checked_add32(self, other) ==
    LET al == Call("align_frac32", <<self, other>>)
    IN  IF self.neg = other.neg
        THEN LET frac == (al[1] (+) al[2])
                 overflow == BBool((frac \succeq al[4]))
                 s1 == (self.int (+) other.int)
                 s2 == (s1 (+) overflow)
             IN  IF (s1 \succ U32Max) THEN None
                 ELSE IF (s2 \succ U32Max) THEN None
                 ELSE Some(Dec(s2, (frac (-) (overflow (.) al[4])), al[3], self.neg))
        ELSE Some(Call("sub_with_cmp32", <<self.int, al[1], self.neg, other.int, al[2], other.neg, al[3], al[4]>>))

checked_sub32(self, other) ==
    LET r == Call("sub32", <<self, other>>)
    IN  IF r.tag = "abort" THEN Abort ELSE Some(r.val)

rem32(self, other) ==
    IF ~(~BZero(other.int) \/ ~BZero(other.frac)) THEN Abort
    ELSE LET q == Call("div32", <<self, other>>).val
             floored == Dec(q.int, <<>>, 0, q.neg)
             m == Call("mul32", <<floored, other>>)
         IN  IF m.tag = "abort" THEN Abort ELSE Call("sub32", <<self, m.val>>)

\* a comparison of magnitudes that leaves the fractions at their own scales
cmp_abs_32_unaligned(a, b) ==
    IF a.int # b.int THEN BOrd(a.int, b.int) ELSE BOrd(a.frac, b.frac)

cmp_abs_32(a, b) ==
    IF a.int # b.int THEN BOrd(a.int, b.int)
    ELSE IF a.scale = b.scale THEN BOrd(a.frac, b.frac)
    ELSE IF a.scale > b.scale
    THEN BOrd(a.frac, (b.frac (.) Call("BPow10", <<a.scale - b.scale>>)))
    ELSE BOrd((a.frac (.) Call("BPow10", <<b.scale - a.scale>>)), b.frac)

cmp32(self, other) ==
    IF Call("is_zero32", <<self>>) /\ Call("is_zero32", <<other>>) THEN Equal
    ELSE IF ~self.neg /\ other.neg THEN Greater
    ELSE IF self.neg /\ ~other.neg THEN Less
    ELSE IF ~self.neg THEN Call("cmp_abs_32", <<self, other>>)
    ELSE 0 - Call("cmp_abs_32", <<self, other>>)

neg32(self) == Dec(self.int, self.frac, self.scale, ~self.neg)

abs32(self) == Dec(self.int, self.frac, self.scale, FALSE)

\* combined /= 10^k if combined % 10^k == 0
StripIf(c, k) ==
    LET qr == Call("BDivMod", <<c, Call("BPow10", <<k>>)>>) IN IF BZero(qr[2]) THEN qr[1] ELSE c

hash32(self) ==
    LET c0 == Call("combined32", <<self>>)
        combined == IF ~BZero(c0)
                    THEN StripIf(StripIf(StripIf(StripIf(c0, 8), 4), 2), 1)
                    ELSE c0
    IN  IF ~BZero(combined) THEN <<combined, self.neg>> ELSE <<combined>>


\* a square root that rounds an inexact root up
sqrt32_round_up(self) ==
    IF self.neg /\ ~is_zero32(self) THEN Abort
    ELSE IF is_zero32(self) THEN Ok(Dec(<<>>, <<>>, 0, FALSE))
    ELSE LET combined == ((self.int (.) Call("pow10", <<self.scale>>)) (+) self.frac)
             n == (combined (.) Call("pow10", <<16 - self.scale>>))
             x0 == Call("isqrt_u128", <<n>>)
             x == IF (x0 (.) x0) = n THEN x0 ELSE (x0 (+) <<1>>)
             scale8 == Call("pow10", <<8>>)
         IN  Ok(Dec(Call("Lo", <<(x (/) scale8), 32>>), Call("Lo", <<(x %% scale8), 32>>), 8, FALSE))

\* the square root with 8 fractional digits, or the panic of its assertion
sqrt32(self) ==
    IF self.neg /\ ~is_zero32(self) THEN Abort
    ELSE IF is_zero32(self) THEN Ok(Dec(<<>>, <<>>, 0, FALSE))
    ELSE LET combined == ((self.int (.) Call("pow10", <<self.scale>>)) (+) self.frac)
             n == (combined (.) Call("pow10", <<16 - self.scale>>))
             x == Call("isqrt_u128", <<n>>)
             scale8 == Call("pow10", <<8>>)
         IN  Ok(Dec(Call("Lo", <<(x (/) scale8), 32>>), Call("Lo", <<(x %% scale8), 32>>), 8, FALSE))

\* the part of round that cuts digits: divide, decide, increment, split
round_cut32(self, decimal_places, mode) ==
    LET combined == ((self.int (.) Call("pow10", <<self.scale>>)) (+) self.frac)
        divisor == Call("pow10", <<self.scale - decimal_places>>)
        qr == Call("BDivMod", <<combined, divisor>>)
        up == Call("should_round_up", <<self.neg, qr[1], qr[2], divisor, mode>>)
    IN  Call("from_combined32", <<(qr[1] (+) BBool(up)), decimal_places, self.neg>>)

\* a round that pads the value to the requested places when it has no more
\* digits than that
round32_padding(self, decimal_places, mode) ==
    IF mode = "Fract" THEN Ok(Dec(<<>>, self.frac, self.scale, self.neg))
    ELSE IF self.scale <= decimal_places
    THEN Ok(Dec(self.int, (self.frac (.) Call("BPow10", <<decimal_places - self.scale>>)), decimal_places, self.neg))
    ELSE Call("round_cut32", <<self, decimal_places, mode>>)

\* round, or the panic of from_combined
round32(self, decimal_places, mode) ==
    IF mode = "Fract" THEN Ok(Dec(<<>>, self.frac, self.scale, self.neg))
    ELSE IF self.scale <= decimal_places THEN Ok(self)
    ELSE Call("round_cut32", <<self, decimal_places, mode>>)

floor32(self) == Call("round32", <<self, 0, "Floor">>)
ceil32(self) == Call("round32", <<self, 0, "Ceil">>)
trunc32(self) == Call("round32", <<self, 0, "Truncate">>)
fract32(self) == Call("round32", <<self, 0, "Fract">>)

\* ======================================================================
\* AncDec (64-bit): u64 int, u64 frac, scale 0..19
\* ======================================================================

SCALE19 == Call("BPow10", <<19>>)

is_zero64(d) == BZero(d.int) /\ BZero(d.frac)

align_frac64(self, other) ==
    IF self.scale = other.scale
    THEN <<self.frac, other.frac, self.scale, Call("pow10", <<self.scale>>)>>
    ELSE IF self.scale > other.scale
    THEN <<self.frac, (other.frac (.) Call("pow10", <<self.scale - other.scale>>)),
           self.scale, Call("pow10", <<self.scale>>)>>
    ELSE <<(self.frac (.) Call("pow10", <<other.scale - self.scale>>)), other.frac,
           other.scale, Call("pow10", <<other.scale>>)>>

\* <<overflow, frac>> of the u128 fractional sum
frac_sum64(a_frac, b_frac, limit) ==
    LET frac_wide == (a_frac (+) b_frac)
        overflow == BBool((frac_wide \succeq limit))
    IN  <<overflow, Call("Lo64", <<(frac_wide (-) (overflow (.) limit))>>)>>

add_aligned64(a_int, a_frac, b_int, b_frac, scale, limit) ==
    LET fs == Call("frac_sum64", <<a_frac, b_frac, limit>>)
        s1 == (a_int (+) b_int)
        s2 == (s1 (+) fs[1])
    IN  IF (s1 \succ U64Max) \/ (s2 \succ U64Max)
        THEN Abort
        ELSE Ok(<<s2, fs[2], scale>>)

sub_with_cmp64(a_int, a_frac, a_neg, b_int, b_frac, b_neg, scale, limit) ==
    IF (a_int \succ b_int) \/ (a_int = b_int /\ (a_frac \succeq b_frac))
    THEN LET borrow == BBool((a_frac \prec b_frac))
         IN  Dec(((a_int (-) b_int) (-) borrow),
                 Call("WrapAdd", <<Call("WrapSub", <<a_frac, b_frac, Pow2_64>>), (borrow (.) limit), Pow2_64>>),
                 scale, a_neg)
    ELSE LET borrow == BBool((b_frac \prec a_frac))
         IN  Dec(((b_int (-) a_int) (-) borrow),
                 Call("WrapAdd", <<Call("WrapSub", <<b_frac, a_frac, Pow2_64>>), (borrow (.) limit), Pow2_64>>),
                 scale, b_neg)

from_combined64(n, scale, neg) ==
    IF scale = 0
    THEN IF (n \succ U64Max) THEN Abort ELSE Ok(Dec(n, <<>>, 0, neg))
    ELSE LET qr == Call("BDivMod", <<n, Call("pow10_128", <<scale>>)>>)
         IN  IF (qr[1] \succ U64Max) THEN Abort
             ELSE Ok(Dec(qr[1], Call("Lo64", <<qr[2]>>), scale, neg))

checked_from_combined64(n, scale, neg) ==
    IF scale = 0
    THEN IF (n \succ U64Max) THEN None ELSE Some(Dec(n, <<>>, 0, neg))
    ELSE LET qr == Call("BDivMod", <<n, Call("pow10_128", <<scale>>)>>)
         IN  IF (qr[1] \succ U64Max) THEN None
             ELSE Some(Dec(qr[1], Call("Lo64", <<qr[2]>>), scale, neg))

\* u128 combined value int * 10^scale + frac
combined64(d) == ((d.int (.) Call("pow10_128", <<d.scale>>)) (+) d.frac)

add64(self, other) ==
    LET al == Call("align_frac64", <<self, other>>)
    IN  IF self.neg = other.neg
        THEN LET r == Call("add_aligned64", <<self.int, al[1], other.int, al[2], al[3], al[4]>>)
             IN  IF r.tag = "abort" THEN Abort
                 ELSE Ok(Dec(r.val[1], r.val[2], r.val[3], self.neg))
        ELSE Ok(Call("sub_with_cmp64", <<self.int, al[1], self.neg, other.int, al[2], other.neg, al[3], al[4]>>))

sub64(self, other) ==
    LET al == Call("align_frac64", <<self, other>>)
        other_neg == ~other.neg
    IN  IF self.neg = other_neg
        THEN LET r == Call("add_aligned64", <<self.int, al[1], other.int, al[2], al[3], al[4]>>)
             IN  IF r.tag = "abort" THEN Abort
                 ELSE Ok(Dec(r.val[1], r.val[2], r.val[3], self.neg))
        ELSE Ok(Call("sub_with_cmp64", <<self.int, al[1], self.neg, other.int, al[2], other_neg, al[3], al[4]>>))

\* Ok(<<result, final_scale>>) of mul and checked_mul; a panic inside div_wide
\* is Abort; the branch that mul answers with panic!("multiplication
\* overflow") and checked_mul with None is [tag |-> "overflow"]
mul_reduce64(self, other) ==
    LET a == Call("combined64", <<self>>)
        b == Call("combined64", <<other>>)
        total_scale == self.scale + other.scale
    IN  IF (a \prec Pow2_64) /\ (b \prec Pow2_64)
        THEN LET product == (Call("Lo64", <<a>>) (.) Call("Lo64", <<b>>))
             IN  IF total_scale > TARGET_SCALE
                 THEN Ok(<<(product (/) Call("pow10_128", <<total_scale - TARGET_SCALE>>)),
                           TARGET_SCALE>>)
                 ELSE Ok(<<product, total_scale>>)
        ELSE LET hl == Call("mul_wide", <<a, b>>)
             IN  IF total_scale > TARGET_SCALE
                 THEN LET q == Call("div_wide", <<hl[1], hl[2], Call("pow10_128", <<total_scale - TARGET_SCALE>>)>>)
                      IN  IF q.tag = "abort" THEN Abort
                          ELSE Ok(<<q.val, TARGET_SCALE>>)
                 ELSE IF BZero(hl[1]) THEN Ok(<<hl[2], total_scale>>)
                 ELSE [tag |-> "overflow", val |-> <<>>]

mul64(self, other) ==
    LET r == Call("mul_reduce64", <<self, other>>)
    IN  IF r.tag # "ok" THEN Abort
        ELSE Call("from_combined64", <<r.val[1], r.val[2], self.neg # other.neg>>)

checked_mul64(self, other) ==
    LET r == Call("mul_reduce64", <<self, other>>)
    IN  IF r.tag = "abort" THEN Abort
        ELSE IF r.tag = "overflow" THEN None
        ELSE Call("checked_from_combined64", <<r.val[1], r.val[2], self.neg # other.neg>>)

div64(self, other) ==
    IF ~(~BZero(other.int) \/ ~BZero(other.frac)) THEN Abort
    ELSE LET a == Call("combined64", <<self>>)
             b == Call("combined64", <<other>>)
             shift == TARGET_SCALE + other.scale
             quotient ==
                 IF shift >= self.scale
                 THEN LET exp == shift - self.scale
                          multiplier == Call("pow10_128", <<exp>>)
                      IN  IF (a \prec Pow2_64) /\ (b \prec Pow2_64) /\ exp <= 19
                          THEN Ok((((a (.) multiplier) %% Pow2_128) (/) b))
                          ELSE LET hl == Call("mul_wide", <<a, multiplier>>)
                               IN  Call("div_wide", <<hl[1], hl[2], b>>)
                 ELSE Ok((a (/) ((b (.) Call("pow10_128", <<self.scale - shift>>)) %% Pow2_128)))
         IN  IF quotient.tag = "abort" THEN Abort
             ELSE LET q == (quotient.val (/) SCALE19)
                      r == (quotient.val (-) (q (.) SCALE19))
                  IN  Ok(Dec(Call("Lo64", <<q>>), Call("Lo64", <<r>>), TARGET_SCALE, self.neg # other.neg))

checked_add64(self, other) ==
    LET al == Call("align_frac64", <<self, other>>)
    IN  IF self.neg = other.neg
        THEN LET fs == Call("frac_sum64", <<al[1], al[2], al[4]>>)
                 s1 == (self.int (+) other.int)
                 s2 == (s1 (+) fs[1])
             IN  IF (s1 \succ U64Max) THEN None
                 ELSE IF (s2 \succ U64Max) THEN None
                 ELSE Some(Dec(s2, fs[2], al[3], self.neg))
        ELSE Some(Call("sub_with_cmp64", <<self.int, al[1], self.neg, other.int, al[2], other.neg, al[3], al[4]>>))

checked_sub64(self, other) ==
    LET r == Call("sub64", <<self, other>>)
    IN  IF r.tag = "abort" THEN Abort ELSE Some(r.val)

rem64(self, other) ==
    IF ~(~BZero(other.int) \/ ~BZero(other.frac)) THEN Abort
    ELSE LET d == Call("div64", <<self, other>>)
         IN  IF d.tag = "abort" THEN Abort
             ELSE LET floored == Dec(d.val.int, <<>>, 0, d.val.neg)
                      m == Call("mul64", <<floored, other>>)
                  IN  IF m.tag = "abort" THEN Abort ELSE Call("sub64", <<self, m.val>>)

cmp_abs(a, b) ==
    IF a.int # b.int THEN BOrd(a.int, b.int)
    ELSE IF a.scale = b.scale THEN BOrd(a.frac, b.frac)
    ELSE IF a.scale > b.scale
    THEN BOrd(a.frac, (b.frac (.) Call("pow10", <<a.scale - b.scale>>)))
    ELSE BOrd((a.frac (.) Call("pow10", <<b.scale - a.scale>>)), b.frac)

cmp64(self, other) ==
    IF Call("is_zero64", <<self>>) /\ Call("is_zero64", <<other>>) THEN Equal
    ELSE IF ~self.neg /\ other.neg THEN Greater
    ELSE IF self.neg /\ ~other.neg THEN Less
    ELSE IF ~self.neg THEN Call("cmp_abs", <<self, other>>)
    ELSE 0 - Call("cmp_abs", <<self, other>>)

neg64(self) == Dec(self.int, self.frac, self.scale, ~self.neg)

abs64(self) == Dec(self.int, self.frac, self.scale, FALSE)

hash64(self) ==
    LET c0 == Call("combined64", <<self>>)
        combined == IF ~BZero(c0)
                    THEN StripIf(StripIf(StripIf(StripIf(StripIf(c0, 16), 8), 4), 2), 1)
                    ELSE c0
    IN  IF ~BZero(combined) THEN <<combined, self.neg>> ELSE <<combined>>

\* the square root with 18 fractional digits, or the panic of its assertion
\* or of the division inside isqrt_u256
sqrt64(self) ==
    IF self.neg /\ ~is_zero64(self) THEN Abort
    ELSE IF is_zero64(self) THEN Ok(Dec(<<>>, <<>>, 0, FALSE))
    ELSE LET combined == ((self.int (.) Call("pow10_128", <<self.scale>>)) (+) self.frac)
             n == Call("mul_wide", <<combined, Call("pow10_128", <<36 - self.scale>>)>>)
             x == Call("isqrt_u256", <<n[1], n[2]>>)
             scale18 == Call("pow10_128", <<18>>)
         IN  IF x.tag = "abort" THEN Abort
             ELSE Ok(Dec(Call("Lo", <<(x.val (/) scale18), 64>>), Call("Lo", <<(x.val %% scale18), 64>>), 18, FALSE))

\* round, or the panic of from_combined
round64(self, decimal_places, mode) ==
    IF mode = "Fract" THEN Ok(Dec(<<>>, self.frac, self.scale, self.neg))
    ELSE IF self.scale <= decimal_places THEN Ok(self)
    ELSE LET combined == ((self.int (.) Call("pow10_128", <<self.scale>>)) (+) self.frac)
             divisor == Call("pow10_128", <<self.scale - decimal_places>>)
             qr == Call("BDivMod", <<combined, divisor>>)
             up == Call("should_round_up", <<self.neg, qr[1], qr[2], divisor, mode>>)
         IN  Call("from_combined64", <<(qr[1] (+) BBool(up)), decimal_places, self.neg>>)

floor64(self) == Call("round64", <<self, 0, "Floor">>)
ceil64(self) == Call("round64", <<self, 0, "Ceil">>)
trunc64(self) == Call("round64", <<self, 0, "Truncate">>)
fract64(self) == Call("round64", <<self, 0, "Fract">>)

\* ======================================================================
\* AncDec128: u128 int, u128 frac, scale 0..38
\* ======================================================================

SCALE38 == Call("BPow10", <<38>>)

\* 10^exp as <<high, low>> for exp 0..76
pow10_256(exp) ==
    IF exp <= 38 THEN <<<<>>, Call("pow10_128", <<exp>>)>>
    ELSE LET a == Call("pow10_128", <<38>>)
             b == Call("pow10_128", <<exp - 38>>)
             ll == (Call("Lo64", <<a>>) (.) Call("Lo64", <<b>>))
             hl == (Call("Hi64", <<a>>) (.) Call("Lo64", <<b>>))
             lh == (Call("Lo64", <<a>>) (.) Call("Hi64", <<b>>))
             hh == (Call("Hi64", <<a>>) (.) Call("Hi64", <<b>>))
             mid == (hl (+) lh)
             mid_carry == BBool((mid \prec hl))
             low == Call("WrapAdd", <<ll, Call("Shl", <<mid, 64, 128>>), Pow2_128>>)
             carry == BBool((low \prec ll))
         IN  <<(((hh (+) Call("Shr", <<mid, 64>>)) (+) Call("Shl", <<mid_carry, 64, 128>>)) (+) carry), low>>

is_zero128(d) == BZero(d.int) /\ BZero(d.frac)

\* u256 <<hi, lo>> = int * 10^scale + frac
combine(int, frac, scale) ==
    LET hl == Call("mul_wide", <<int, Call("pow10_128", <<scale>>)>>)
        lc == Call("overflowing_add128", <<hl[2], frac>>)
    IN  <<(hl[1] (+) BBool(lc[2])), lc[1]>>

align_frac128(self, other) ==
    IF self.scale = other.scale
    THEN <<self.frac, other.frac, self.scale, Call("pow10_128", <<self.scale>>)>>
    ELSE IF self.scale > other.scale
    THEN <<self.frac, (other.frac (.) Call("pow10_128", <<self.scale - other.scale>>)),
           self.scale, Call("pow10_128", <<self.scale>>)>>
    ELSE <<(self.frac (.) Call("pow10_128", <<other.scale - self.scale>>)), other.frac,
           other.scale, Call("pow10_128", <<other.scale>>)>>

try_combine_u64(int, frac, scale) ==
    IF scale > 19 \/ (int \succ U64Max) \/ (frac \succ U64Max) THEN None
    ELSE LET m == (int (.) Call("pow10", <<scale>>))
         IN  IF (m \succ U64Max) THEN None
             ELSE IF ((m (+) frac) \succ U64Max) THEN None
             ELSE Some((m (+) frac))

try_combine_u128(int, frac, scale) ==
    LET m == (int (.) Call("pow10_128", <<scale>>))
    IN  IF (m \succ U128Max) THEN None
        ELSE IF ((m (+) frac) \succ U128Max) THEN None
        ELSE Some((m (+) frac))

add_aligned128(a_int, a_frac, b_int, b_frac, scale, limit) ==
    LET frac == (a_frac (+) b_frac)
        overflow == BBool((frac \succeq limit))
        s1 == (a_int (+) b_int)
        s2 == (s1 (+) overflow)
    IN  IF (s1 \succ U128Max) \/ (s2 \succ U128Max)
        THEN Abort
        ELSE Ok(<<s2, (frac (-) (overflow (.) limit)), scale>>)

sub_with_cmp128(a_int, a_frac, a_neg, b_int, b_frac, b_neg, scale, limit) ==
    IF (a_int \succ b_int) \/ (a_int = b_int /\ (a_frac \succeq b_frac))
    THEN LET borrow == BBool((a_frac \prec b_frac))
         IN  Dec(((a_int (-) b_int) (-) borrow),
                 Call("WrapAdd", <<Call("WrapSub", <<a_frac, b_frac, Pow2_128>>), (borrow (.) limit), Pow2_128>>),
                 scale, a_neg)
    ELSE LET borrow == BBool((b_frac \prec a_frac))
         IN  Dec(((b_int (-) a_int) (-) borrow),
                 Call("WrapAdd", <<Call("WrapSub", <<b_frac, a_frac, Pow2_128>>), (borrow (.) limit), Pow2_128>>),
                 scale, b_neg)

from_combined128(n, scale, neg) ==
    IF scale = 0
    THEN IF ~BZero(n[1]) THEN Abort ELSE Ok(Dec(n[2], <<>>, 0, neg))
    ELSE LET qr == Call("divmod_u256", <<n[1], n[2], Call("pow10_128", <<scale>>)>>)
         IN  IF qr.tag = "abort" THEN Abort
             ELSE IF ~BZero(qr.val[1][1]) THEN Abort
             ELSE Ok(Dec(qr.val[1][2], qr.val[2], scale, neg))

checked_from_combined128(n, scale, neg) ==
    IF scale = 0
    THEN IF ~BZero(n[1]) THEN None ELSE Some(Dec(n[2], <<>>, 0, neg))
    ELSE LET qr == Call("divmod_u256", <<n[1], n[2], Call("pow10_128", <<scale>>)>>)
         IN  IF qr.tag = "abort" THEN Abort
             ELSE IF ~BZero(qr.val[1][1]) THEN None
             ELSE Some(Dec(qr.val[1][2], qr.val[2], scale, neg))

add128(self, other) ==
    LET al == Call("align_frac128", <<self, other>>)
    IN  IF self.neg = other.neg
        THEN LET r == Call("add_aligned128", <<self.int, al[1], other.int, al[2], al[3], al[4]>>)
             IN  IF r.tag = "abort" THEN Abort
                 ELSE Ok(Dec(r.val[1], r.val[2], r.val[3], self.neg))
        ELSE Ok(Call("sub_with_cmp128", <<self.int, al[1], self.neg, other.int, al[2], other.neg, al[3], al[4]>>))

sub128(self, other) ==
    LET al == Call("align_frac128", <<self, other>>)
        other_neg == ~other.neg
    IN  IF self.neg = other_neg
        THEN LET r == Call("add_aligned128", <<self.int, al[1], other.int, al[2], al[3], al[4]>>)
             IN  IF r.tag = "abort" THEN Abort
                 ELSE Ok(Dec(r.val[1], r.val[2], r.val[3], self.neg))
        ELSE Ok(Call("sub_with_cmp128", <<self.int, al[1], self.neg, other.int, al[2], other_neg, al[3], al[4]>>))

\* which of the four paths mul, checked_mul take
mul_path128(self, other) ==
    IF Call("try_combine_u64", <<self.int, self.frac, self.scale>>).tag = "some"
       /\ Call("try_combine_u64", <<other.int, other.frac, other.scale>>).tag = "some"
    THEN "ultra"
    ELSE IF self.scale <= 19 /\ other.scale <= 19
            /\ (self.int \preceq U64Max) /\ (self.frac \preceq U64Max)
            /\ (other.int \preceq U64Max) /\ (other.frac \preceq U64Max)
    THEN "partial"
    ELSE IF Call("try_combine_u128", <<self.int, self.frac, self.scale>>).tag = "some"
            /\ Call("try_combine_u128", <<other.int, other.frac, other.scale>>).tag = "some"
    THEN "fast"
    ELSE "slow"

\* ultra-fast path of mul and checked_mul: u64 * u64 = u128
mul_ultra128(self, other, neg, total_scale) ==
    LET a == Call("try_combine_u64", <<self.int, self.frac, self.scale>>).val
        b == Call("try_combine_u64", <<other.int, other.frac, other.scale>>).val
        product == (a (.) b)
    IN  IF total_scale <= 19 /\ (product \preceq U64Max)
        THEN LET d == Call("pow10", <<total_scale>>)
             IN  Dec((product (/) d), (product %% d), total_scale, neg)
        ELSE IF total_scale <= 38
        THEN LET divisor == Call("pow10_128", <<total_scale>>)
             IN  Dec((product (/) divisor), (product %% divisor), total_scale, neg)
        ELSE LET reduced == (product (/) Call("pow10_128", <<total_scale - TARGET_SCALE_128>>))
             IN  Dec((reduced (/) SCALE38), (reduced %% SCALE38), TARGET_SCALE_128, neg)

\* partial-product path of mul and checked_mul: Some(result), or None when
\* a checked_add of the integer part fails
mul_partial128(self, other, neg, total_scale) ==
    LET ii == (self.int (.) other.int)
        if_ == (self.int (.) other.frac)
        fi == (self.frac (.) other.int)
        ff == (self.frac (.) other.frac)
        sa_pow == Call("pow10_128", <<self.scale>>)
        sb_pow == Call("pow10_128", <<other.scale>>)
        scale_pow == Call("pow10_128", <<total_scale>>)
        if_int == (if_ (/) sb_pow)
        if_frac == ((if_ %% sb_pow) (.) sa_pow)
        fi_int == (fi (/) sa_pow)
        fi_frac == ((fi %% sa_pow) (.) sb_pow)
        frac_sum == ((if_frac (+) fi_frac) (+) ff)
        f == (frac_sum (-) scale_pow)
        fc == IF (frac_sum \succeq scale_pow)
              THEN IF (f \succeq scale_pow) THEN <<(f (-) scale_pow), <<2>>>> ELSE <<f, <<1>>>>
              ELSE <<frac_sum, <<>>>>
        s1 == (ii (+) if_int)
        s2 == (s1 (+) fi_int)
        s3 == (s2 (+) fc[2])
    IN  IF (s1 \succ U128Max) \/ (s2 \succ U128Max) \/ (s3 \succ U128Max)
        THEN None
        ELSE Some(Dec(s3, fc[1], total_scale, neg))

\* fast and slow paths of mul and checked_mul up to the final split:
\* Ok(<<<<hi, lo>>, final_scale>>), Abort for a panic inside the kernel, and
\* [tag |-> "overflow"] where mul panics and checked_mul returns None
mul_wide128(self, other, total_scale, path) ==
    IF path = "fast"
    THEN LET a == Call("try_combine_u128", <<self.int, self.frac, self.scale>>).val
             b == Call("try_combine_u128", <<other.int, other.frac, other.scale>>).val
             hl == Call("mul_wide", <<a, b>>)
         IN  CASE Eval(hl) ->
             IF total_scale > TARGET_SCALE_128
             THEN LET q == Call("divmod_u256", <<hl[1], hl[2], Call("pow10_128", <<total_scale - TARGET_SCALE_128>>)>>)
                  IN  IF q.tag = "abort" THEN Abort
                      ELSE Ok(<<q.val[1], TARGET_SCALE_128>>)
             ELSE Ok(<<hl, total_scale>>)
    ELSE LET a == Call("combine", <<self.int, self.frac, self.scale>>)
             b == Call("combine", <<other.int, other.frac, other.scale>>)
             w == Call("mul_u256", <<a, b>>)
         IN  CASE Eval(a) -> CASE Eval(b) -> CASE Eval(w) ->
             IF total_scale > TARGET_SCALE_128
             THEN LET q == Call("div_u512_by_u128", <<w[1], w[2], w[3], w[4], Call("pow10_128", <<total_scale - TARGET_SCALE_128>>)>>)
                  IN  IF q.tag = "abort" THEN Abort
                      ELSE Ok(<<q.val, TARGET_SCALE_128>>)
             ELSE IF BZero(w[1]) /\ BZero(w[2]) THEN Ok(<<<<w[3], w[4]>>, total_scale>>)
             ELSE [tag |-> "overflow", val |-> <<>>]

mul128(self, other) ==
    LET neg == self.neg # other.neg
        total_scale == self.scale + other.scale
        path == Call("mul_path128", <<self, other>>)
    IN  IF path = "ultra" THEN Ok(Call("mul_ultra128", <<self, other, neg, total_scale>>))
        ELSE IF path = "partial"
        THEN LET r == Call("mul_partial128", <<self, other, neg, total_scale>>)
             IN  IF r.tag = "none" THEN Abort ELSE Ok(r.val)
        ELSE LET r == Call("mul_wide128", <<self, other, total_scale, path>>)
             IN  IF r.tag # "ok" THEN Abort
                 ELSE Call("from_combined128", <<r.val[1], r.val[2], neg>>)

checked_mul128(self, other) ==
    LET neg == self.neg # other.neg
        total_scale == self.scale + other.scale
        path == Call("mul_path128", <<self, other>>)
    IN  IF path = "ultra" THEN Some(Call("mul_ultra128", <<self, other, neg, total_scale>>))
        ELSE IF path = "partial" THEN Call("mul_partial128", <<self, other, neg, total_scale>>)
        ELSE LET r == Call("mul_wide128", <<self, other, total_scale, path>>)
             IN  IF r.tag = "abort" THEN Abort
                 ELSE IF r.tag = "overflow" THEN None
                 ELSE Call("checked_from_combined128", <<r.val[1], r.val[2], neg>>)

\* the q, r decomposition shared by the ultra-fast and fast paths of div:
\* a * 10^exp / b = (a / b) * 10^exp + (a % b) * 10^exp / b
div_decomposed128(a, b, exp, neg) ==
    LET q == (a (/) b)
        r == (a %% b)
        exp_pow == Call("pow10_128", <<exp>>)
        gap_pow == Call("pow10_128", <<38 - exp>>)
        int == IF exp < 38 THEN (q (/) gap_pow) ELSE q
        frac_high == IF exp < 38 THEN ((q %% gap_pow) (.) exp_pow) ELSE <<>>
        r_scaled == (r (.) exp_pow)
        hl == Call("mul_wide", <<r, exp_pow>>)
        frac_low == IF BZero(r) THEN Ok(<<>>)
                    ELSE IF (r_scaled \preceq U128Max) THEN Ok((r_scaled (/) b))
                    ELSE Call("div_wide", <<hl[1], hl[2], b>>)
    IN  CASE Eval(<<q, r>>) ->
        IF frac_low.tag = "abort" THEN Abort
        ELSE LET frac_total == (frac_high (+) frac_low.val)
                 carry == BBool((frac_total \succeq SCALE38))
             IN  Ok(Dec((int (+) carry), (frac_total (-) (carry (.) SCALE38)),
                        TARGET_SCALE_128, neg))

\* which of the three paths div takes
div_path128(self, other) ==
    LET shift == TARGET_SCALE_128 + other.scale
        small == shift >= self.scale /\ shift - self.scale <= 38
    IN  IF small /\ Call("try_combine_u64", <<self.int, self.frac, self.scale>>).tag = "some"
           /\ Call("try_combine_u64", <<other.int, other.frac, other.scale>>).tag = "some"
        THEN "ultra"
        ELSE IF small /\ Call("try_combine_u128", <<self.int, self.frac, self.scale>>).tag = "some"
                /\ Call("try_combine_u128", <<other.int, other.frac, other.scale>>).tag = "some"
        THEN "fast"
        ELSE "slow"

div128(self, other) ==
    IF ~(~BZero(other.int) \/ ~BZero(other.frac)) THEN Abort
    ELSE LET neg == self.neg # other.neg
             shift == TARGET_SCALE_128 + other.scale
             path == Call("div_path128", <<self, other>>)
         IN  IF path = "ultra"
             THEN Call("div_decomposed128", <<Call("try_combine_u64", <<self.int, self.frac, self.scale>>).val, Call("try_combine_u64", <<other.int, other.frac, other.scale>>).val, shift - self.scale, neg>>)
             ELSE IF path = "fast"
             THEN Call("div_decomposed128", <<Call("try_combine_u128", <<self.int, self.frac, self.scale>>).val, Call("try_combine_u128", <<other.int, other.frac, other.scale>>).val, shift - self.scale, neg>>)
             ELSE LET a == Call("combine", <<self.int, self.frac, self.scale>>)
                      b == Call("combine", <<other.int, other.frac, other.scale>>)
                      quotient ==
                          IF shift >= self.scale
                          THEN LET w == Call("mul_u256", <<a, Call("pow10_256", <<shift - self.scale>>)>>)
                               IN  CASE Eval(w) -> Call("div_u512_by_u256", <<w[1], w[2], w[3], w[4], b[1], b[2]>>)
                          ELSE LET w == Call("mul_u256", <<b, Call("pow10_256", <<self.scale - shift>>)>>)
                               IN  CASE Eval(w) -> Call("div_u512_by_u256", <<<<>>, <<>>, a[1], a[2], w[3], w[4]>>)
                  IN  CASE Eval(a) -> CASE Eval(b) ->
                      IF quotient.tag = "abort" THEN Abort
                      ELSE LET qr == Call("divmod_u256", <<quotient.val[1], quotient.val[2], SCALE38>>)
                           IN  IF qr.tag = "abort" THEN Abort
                               ELSE Ok(Dec(qr.val[1][2], qr.val[2], TARGET_SCALE_128, neg))

checked_add128(self, other) ==
    LET al == Call("align_frac128", <<self, other>>)
    IN  IF self.neg = other.neg
        THEN LET frac == (al[1] (+) al[2])
                 overflow == BBool((frac \succeq al[4]))
                 s1 == (self.int (+) other.int)
                 s2 == (s1 (+) overflow)
             IN  IF (s1 \succ U128Max) THEN None
                 ELSE IF (s2 \succ U128Max) THEN None
                 ELSE Some(Dec(s2, (frac (-) (overflow (.) al[4])), al[3], self.neg))
        ELSE Some(Call("sub_with_cmp128", <<self.int, al[1], self.neg, other.int, al[2], other.neg, al[3], al[4]>>))

checked_sub128(self, other) ==
    LET r == Call("sub128", <<self, other>>)
    IN  IF r.tag = "abort" THEN Abort ELSE Some(r.val)

rem128(self, other) ==
    IF ~(~BZero(other.int) \/ ~BZero(other.frac)) THEN Abort
    ELSE LET d == Call("div128", <<self, other>>)
         IN  IF d.tag = "abort" THEN Abort
             ELSE LET floored == Dec(d.val.int, <<>>, 0, d.val.neg)
                      m == Call("mul128", <<floored, other>>)
                  IN  IF m.tag = "abort" THEN Abort ELSE Call("sub128", <<self, m.val>>)

cmp_abs_128(a, b) ==
    IF a.int # b.int THEN BOrd(a.int, b.int)
    ELSE IF a.scale = b.scale THEN BOrd(a.frac, b.frac)
    ELSE IF a.scale > b.scale
    THEN BOrd(a.frac, (b.frac (.) Call("pow10_128", <<a.scale - b.scale>>)))
    ELSE BOrd((a.frac (.) Call("pow10_128", <<b.scale - a.scale>>)), b.frac)

cmp128(self, other) ==
    IF Call("is_zero128", <<self>>) /\ Call("is_zero128", <<other>>) THEN Equal
    ELSE IF ~self.neg /\ other.neg THEN Greater
    ELSE IF self.neg /\ ~other.neg THEN Less
    ELSE IF ~self.neg THEN Call("cmp_abs_128", <<self, other>>)
    ELSE 0 - Call("cmp_abs_128", <<self, other>>)

neg128(self) == Dec(self.int, self.frac, self.scale, ~self.neg)

abs128(self) == Dec(self.int, self.frac, self.scale, FALSE)

\* strip_u256!(10^k): divide <<hi, lo>> by 10^k when the remainder is zero
strip_u256(n, k) ==
    LET qr == Call("divmod_u256", <<n[1], n[2], Call("pow10_128", <<k>>)>>).val
    IN  IF BZero(qr[2]) THEN qr[1] ELSE n

hash128(self) ==
    LET n0 == Call("combine", <<self.int, self.frac, self.scale>>)
        hi == n0[1]
        lo == n0[2]
        n == IF (~BZero(hi) \/ ~BZero(lo))
                /\ (Call("Small", <<(hi %% <<10>>)>>) * 6 + Call("Small", <<(lo %% <<10>>)>>)) % 10 = 0
             THEN Call("strip_u256", <<Call("strip_u256", <<Call("strip_u256", <<Call("strip_u256", <<Call("strip_u256", <<Call("strip_u256", <<n0, 32>>), 16>>), 8>>), 4>>), 2>>), 1>>)
             ELSE n0
    IN  IF ~BZero(n[1]) \/ ~BZero(n[2]) THEN <<n[1], n[2], self.neg>> ELSE <<n[1], n[2]>>

\* the square root with 37 fractional digits, or the panic of its assertion
\* or of a division inside
sqrt128(self) ==
    IF self.neg /\ ~is_zero128(self) THEN Abort
    ELSE IF is_zero128(self) THEN Ok(Dec(<<>>, <<>>, 0, FALSE))
    ELSE LET combined == Call("combine", <<self.int, self.frac, self.scale>>)
             w == Call("mul_u256", <<combined, Call("pow10_256", <<74 - self.scale>>)>>)
             r == Call("isqrt_u512", <<w[1], w[2], w[3], w[4]>>)
         IN  IF r.tag = "abort" THEN Abort
             ELSE LET qr == Call("divmod_u256", <<r.val[1], r.val[2], Call("pow10_128", <<37>>)>>)
                  IN  IF qr.tag = "abort" THEN Abort
                      ELSE Ok(Dec(qr.val[1][2], qr.val[2], 37, FALSE))

\* round; the quotient keeps its low limb only; or the panic of a division
\* or of from_combined
round128(self, decimal_places, mode) ==
    IF mode = "Fract" THEN Ok(Dec(<<>>, self.frac, self.scale, self.neg))
    ELSE IF self.scale <= decimal_places THEN Ok(self)
    ELSE LET combined == Call("combine", <<self.int, self.frac, self.scale>>)
             divisor == Call("pow10_128", <<self.scale - decimal_places>>)
             qr == Call("divmod_u256", <<combined[1], combined[2], divisor>>)
         IN  IF qr.tag = "abort" THEN Abort
             ELSE Call("round_up128", <<self, qr.val[1][2], qr.val[2], divisor, decimal_places, mode>>)

\* the second half of round: the increment and from_combined
round_up128(self, truncated, remainder, divisor, decimal_places, mode) ==
    IF Call("should_round_up", <<self.neg, truncated, remainder, divisor, mode>>)
    THEN LET lc == Call("overflowing_add128", <<truncated, <<1>>>>)
         IN  Call("from_combined128", <<<<BBool(lc[2]), lc[1]>>, decimal_places, self.neg>>)
    ELSE Call("from_combined128", <<<<<<>>, truncated>>, decimal_places, self.neg>>)

floor128(self) == Call("round128", <<self, 0, "Floor">>)
ceil128(self) == Call("round128", <<self, 0, "Ceil">>)
trunc128(self) == Call("round128", <<self, 0, "Truncate">>)
fract128(self) == Call("round128", <<self, 0, "Fract">>)


\* values of the 8-bit tier the operands are drawn from
Samples8 ==
    {Dec(i, fs[1], fs[2], n) :
        i \in {0, 1, 10, 16, 255}, fs \in {<<0, 0>>, <<5, 1>>, <<0, 2>>, <<99, 2>>},
        n \in BOOLEAN}

\* values of the 32-bit tier the operands are drawn from
Samples32 ==
    { Dec(<<>>, <<>>, 0, FALSE),
      Dec(<<>>, <<>>, 9, TRUE),
      Dec(Call("BPow10", <<7>>), <<>>, 0, FALSE),
      Dec(Call("BPow10", <<7>>), <<>>, 9, FALSE),
      Dec(Call("Big", <<200000>>), <<>>, 1, FALSE),
      Dec(Call("Big", <<100000>>), <<>>, 9, TRUE),
      Dec(U32Max, (Call("BPow10", <<9>>) (-) <<1>>), 9, FALSE),
      Dec(U32Max, <<>>, 0, TRUE),
      Dec(<<1>>, <<5>>, 1, TRUE),
      Dec(<<3>>, <<>>, 0, FALSE),
      Dec(<<>>, <<1>>, 9, FALSE),
      Dec(<<1>>, <<2>>, 1, FALSE),
      Dec(<<1>>, <<5>>, 2, FALSE),
      Dec(Call("Big", <<12>>), Call("Big", <<345>>), 3, FALSE) }

\* values of the 64-bit tier the operands are drawn from
Samples64 ==
    { Dec(<<>>, <<>>, 0, FALSE),
      Dec(<<>>, <<>>, 19, TRUE),
      Dec(Call("BPow10", <<13>>), <<>>, 0, FALSE),
      Dec(Call("BPow10", <<13>>), <<>>, 19, FALSE),
      Dec(U64Max, (Call("BPow10", <<19>>) (-) <<1>>), 19, FALSE),
      Dec(U64Max, <<>>, 0, TRUE),
      Dec(Call("BPow10", <<10>>), <<5>>, 1, FALSE),
      Dec(<<1>>, <<5>>, 1, TRUE),
      Dec(<<3>>, <<>>, 0, FALSE),
      Dec(<<>>, <<1>>, 19, FALSE),
      Dec(<<1>>, <<2>>, 1, FALSE),
      Dec(<<1>>, <<5>>, 2, FALSE),
      Dec(Call("Big", <<12>>), Call("Big", <<345>>), 3, FALSE) }

\* values of the 128-bit tier the operands are drawn from
Samples128 ==
    { Dec(<<>>, <<>>, 0, FALSE),
      Dec(<<>>, <<>>, 38, TRUE),
      Dec(Call("BPow10", <<26>>), <<>>, 0, FALSE),
      Dec(Call("BPow10", <<26>>), <<>>, 38, FALSE),
      Dec(U128Max, (Call("BPow10", <<38>>) (-) <<1>>), 38, FALSE),
      Dec(U128Max, <<>>, 0, TRUE),
      Dec(U64Max, <<5>>, 1, FALSE),
      Dec(Call("BPow10", <<30>>), Call("BPow10", <<19>>), 20, TRUE),
      Dec(<<1>>, <<5>>, 1, TRUE),
      Dec(<<3>>, <<>>, 0, FALSE),
      Dec(<<>>, <<1>>, 38, FALSE),
      Dec(<<1>>, <<2>>, 1, FALSE),
      Dec(<<1>>, <<5>>, 2, FALSE),
      Dec(Call("Big", <<12>>), Call("Big", <<345>>), 3, FALSE) }

Samples(t) ==
    CASE t = 8 -> Samples8
      [] t = 32 -> Samples32
      [] t = 64 -> Samples64
      [] t = 128 -> Samples128

\* more values for the operations of one operand: 2.1 .. 3.9 of both signs,
\* the largest integer part and a half, 3.14159, and in the 128-bit tier a
\* value whose combined value needs more than 128 bits at 37 places
RoundSamples(t) ==
    {Dec(IF t = 8 THEN i ELSE Call("Big", <<i>>), IF t = 8 THEN f ELSE Call("Big", <<f>>), 1, n) :
        i \in {2, 3}, f \in {1, 5, 9}, n \in BOOLEAN}
    \cup (CASE t = 8 -> {}
            [] t = 32 -> {Dec(U32Max, <<5>>, 1, n) : n \in BOOLEAN}
                         \cup {Dec(<<3>>, Call("Big", <<14159>>), 5, FALSE)}
            [] t = 64 -> {Dec(U64Max, <<5>>, 1, n) : n \in BOOLEAN}
                         \cup {Dec(<<3>>, Call("Big", <<14159>>), 5, FALSE)}
            [] t = 128 -> {Dec(U128Max, <<5>>, 1, n) : n \in BOOLEAN}
                          \cup {Dec(<<3>>, Call("Big", <<14159>>), 5, FALSE),
                                Dec(<<100>>, (<<5>> (.) Call("BPow10", <<37>>)), 38, FALSE)})

SamplesUnary(t) == Call("Samples", <<t>>) \cup RoundSamples(t)

\* ======================================================================
\* Text: Display and parse_str.  A text is a sequence of characters.
\* ======================================================================

\* a parse error
Err(e) == [tag |-> "err", val |-> e]

DigitChars == <<"0", "1", "2", "3", "4", "5", "6", "7", "8", "9">>

\* the byte of a character
ByteOf(c) ==
    CASE c = "-" -> 45 [] c = "." -> 46 [] c = "+" -> 43 [] c = " " -> 32
      [] c = "a" -> 97 [] c = "b" -> 98 [] c = "c" -> 99
      [] OTHER -> 47 + (CHOOSE d \in 1..10 : DigitChars[d] = c)

\* b.wrapping_sub(b'0') of a byte
wrapping_digit(c) == (ByteOf(c) - 48) % 256

RECURSIVE fmt_small(_)
\* the decimal digits of a natural below 2^31
fmt_small(k) ==
    IF k < 10 THEN <<DigitChars[k + 1]>>
    ELSE Call("fmt_small", <<k \div 10>>) \o <<DigitChars[(k % 10) + 1]>>

\* {:0>w$}: a text padded on the left with zeros to the width w
pad_zero(s, w) == [i \in 1..(w - Len(s)) |-> "0"] \o s

RECURSIVE fmt_limbs(_, _)
\* the four digits of each of the limbs i .. 1 of n
fmt_limbs(n, i) ==
    IF i = 0 THEN <<>>
    ELSE pad_zero(Call("fmt_small", <<n[i]>>), 4) \o Call("fmt_limbs", <<n, i - 1>>)

\* {}: the decimal digits of an unsigned integer, "0" for zero
fmt_uint(n) ==
    IF n = <<>> THEN <<"0">>
    ELSE Call("fmt_small", <<n[Len(n)]>>) \o Call("fmt_limbs", <<n, Len(n) - 1>>)

\* the body of Display::fmt with the fractional part never padded
write_parts_unpadded(sign, int, frac, scale, prec) ==
    LET i == sign \o Call("fmt_uint", <<int>>)
    IN  IF prec.tag = "some" /\ prec.val = 0 THEN i
        ELSE IF scale = 0 THEN i
        ELSE i \o <<".">> \o Call("fmt_uint", <<frac>>)

\* the body of Display::fmt: the sign, the integer part and the fractional
\* part padded to the scale, or cut or padded to the precision asked for
write_parts(sign, int, frac, scale, prec) ==
    LET i == sign \o Call("fmt_uint", <<int>>)
    IN  IF prec.tag = "some"
        THEN IF prec.val = 0 THEN i
             ELSE IF scale = 0 THEN i \o <<".">> \o pad_zero(<<>>, prec.val)
             ELSE IF prec.val <= scale
             THEN i \o <<".">>
                    \o pad_zero(Call("fmt_uint", <<(frac (/) Call("BPow10", <<scale - prec.val>>))>>), prec.val)
             ELSE i \o <<".">> \o pad_zero(Call("fmt_uint", <<frac>>), scale)
                    \o pad_zero(<<>>, prec.val - scale)
        ELSE IF scale = 0 THEN i
        ELSE i \o <<".">> \o pad_zero(Call("fmt_uint", <<frac>>), scale)

\* Display for AncDec8 and AncDec32: [sign]integer[.fractional zero-padded to scale]
fmt8(self, prec) ==
    Call("write_parts", <<IF self.neg THEN <<"-">> ELSE <<>>, Call("Big", <<self.int>>),
                          Call("Big", <<self.frac>>), self.scale, prec>>)

fmt32(self, prec) ==
    Call("write_parts", <<IF self.neg THEN <<"-">> ELSE <<>>, self.int, self.frac, self.scale, prec>>)

\* a Display that writes 18 fractional digits when no precision is asked for
fmt64_eighteen(self, prec) ==
    LET sign == IF self.neg THEN <<"-">> ELSE <<>>
    IN  Call("write_parts", <<sign, self.int, self.frac, self.scale,
                              IF prec.tag = "none" THEN Some(18) ELSE prec>>)

\* Display for AncDec
fmt64(self, prec) ==
    LET sign == IF self.neg THEN <<"-">> ELSE <<>>
    IN  Call("write_parts", <<sign, self.int, self.frac, self.scale, prec>>)

\* Display for AncDec128: a zero is written without a sign
fmt128(self, prec) ==
    LET is_zero == self.int = <<>> /\ self.frac = <<>>
        sign == IF self.neg /\ ~is_zero THEN <<"-">> ELSE <<>>
    IN  Call("write_parts", <<sign, self.int, self.frac, self.scale, prec>>)

\* StackBuf<N>::write_str: the text is cut at the capacity of the buffer
write_str(N, s) == IF Len(s) <= N THEN s ELSE SubSeq(s, 1, N)

RECURSIVE parse_digits(_, _, _, _, _)
\* a run of at most limit digits, accumulated without a check:
\* <<value, digits, i>>
parse_digits(s, i, acc, digits, limit) ==
    IF i < Len(s) /\ digits < limit /\ wrapping_digit(s[i + 1]) <= 9
    THEN Call("parse_digits", <<s, i + 1, (Call("BMulSmall", <<acc, 10>>) (+) Call("Big", <<wrapping_digit(s[i + 1])>>)),
                                digits + 1, limit>>)
    ELSE <<acc, digits, i>>

RECURSIVE parse_int_checked(_, _, _, _)
\* the integer part with checked_mul and checked_add: Ok(<<int, i>>) or the
\* Overflow error
parse_int_checked(s, i, int, max) ==
    IF i < Len(s) /\ wrapping_digit(s[i + 1]) <= 9
    THEN LET m == Call("BMulSmall", <<int, 10>>)
             v == (m (+) Call("Big", <<wrapping_digit(s[i + 1])>>))
         IN  IF (m \succ max) \/ (v \succ max) THEN Err("Overflow")
             ELSE Call("parse_int_checked", <<s, i + 1, v, max>>)
    ELSE Ok(<<int, i>>)

RECURSIVE parse_int_saturating(_, _, _, _)
\* the integer part with saturating_mul and saturating_add: <<int, i>>
parse_int_saturating(s, i, int, max) ==
    IF i < Len(s) /\ wrapping_digit(s[i + 1]) <= 9
    THEN LET m == Call("BMulSmall", <<int, 10>>)
             sm == IF (m \succ max) THEN max ELSE m
             v == (sm (+) Call("Big", <<wrapping_digit(s[i + 1])>>))
         IN  Call("parse_int_saturating", <<s, i + 1, IF (v \succ max) THEN max ELSE v, max>>)
    ELSE <<int, i>>

RECURSIVE parse_frac_stopping(_, _, _, _, _)
\* a fractional part that stops at the target scale and leaves the digits
\* beyond it unread
parse_frac_stopping(s, i, frac, frac_digits, target) ==
    IF i < Len(s) /\ wrapping_digit(s[i + 1]) <= 9 /\ frac_digits < target
    THEN Call("parse_frac_stopping", <<s, i + 1,
                                       (Call("BMulSmall", <<frac, 10>>) (+) Call("Big", <<wrapping_digit(s[i + 1])>>)),
                                       frac_digits + 1, target>>)
    ELSE <<frac, frac_digits, i>>

RECURSIVE parse_frac(_, _, _, _, _)
\* the fractional part: digits beyond the target scale are consumed and
\* dropped: <<frac, frac_digits, i>>
parse_frac(s, i, frac, frac_digits, target) ==
    IF i < Len(s) /\ wrapping_digit(s[i + 1]) <= 9
    THEN IF frac_digits < target
         THEN Call("parse_frac", <<s, i + 1,
                                   (Call("BMulSmall", <<frac, 10>>) (+) Call("Big", <<wrapping_digit(s[i + 1])>>)),
                                   frac_digits + 1, target>>)
         ELSE Call("parse_frac", <<s, i + 1, frac, frac_digits, target>>)
    ELSE <<frac, frac_digits, i>>

\* skip '.'
skip_dot(s, i) == IF i < Len(s) /\ s[i + 1] = "." THEN i + 1 ELSE i

\* a parse_str that does not look at what follows the number
parse_str_checked_lenient(s, max, target) ==
    IF Len(s) = 0 THEN Err("Empty")
    ELSE LET neg == s[1] = "-"
             i0 == IF neg THEN 1 ELSE 0
         IN  IF i0 >= Len(s) THEN Err("NoDigits")
             ELSE LET p == Call("parse_int_checked", <<s, i0, <<>>, max>>)
                  IN  IF p.tag = "err" THEN p
                      ELSE LET has_digits == p.val[2] > i0
                               f == Call("parse_frac", <<s, skip_dot(s, p.val[2]), <<>>, 0, target>>)
                           IN  IF ~has_digits /\ f[2] = 0 THEN Err("NoDigits")
                               ELSE Ok(Dec(p.val[1], f[1], f[2], neg))

\* parse_str of AncDec8, AncDec32 and AncDec (ancdec/mod.rs), over the
\* largest integer part and the target scale of the tier
parse_str_checked(s, max, target) ==
    IF Len(s) = 0 THEN Err("Empty")
    ELSE LET neg == s[1] = "-"
             i0 == IF neg THEN 1 ELSE 0
         IN  IF i0 >= Len(s) THEN Err("NoDigits")
             ELSE LET p == Call("parse_int_checked", <<s, i0, <<>>, max>>)
                  IN  IF p.tag = "err" THEN p
                      ELSE LET has_digits == p.val[2] > i0
                               f == Call("parse_frac", <<s, skip_dot(s, p.val[2]), <<>>, 0, target>>)
                           IN  IF ~has_digits /\ f[2] = 0 THEN Err("NoDigits")
                               ELSE IF f[3] # Len(s) THEN Err("TrailingChars")
                               ELSE Ok(Dec(p.val[1], f[1], f[2], neg))

parse_str8(s) ==
    LET r == Call("parse_str_checked", <<s, Call("Big", <<U8Max>>), TARGET_SCALE_8>>)
    IN  IF r.tag = "err" THEN r
        ELSE Ok(Dec(Call("Small", <<r.val.int>>), Call("Small", <<r.val.frac>>), r.val.scale, r.val.neg))

parse_str32(s) == Call("parse_str_checked", <<s, U32Max, TARGET_SCALE_32>>)

parse_str64(s) == Call("parse_str_checked", <<s, U64Max, TARGET_SCALE>>)

\* parse_str of lib.rs: the integer part saturates at u64::MAX, and a text
\* without an integer digit has no digits
parse_str_lib(s) ==
    IF Len(s) = 0 THEN Err("Empty")
    ELSE LET neg == s[1] = "-"
             i0 == IF neg THEN 1 ELSE 0
         IN  IF i0 >= Len(s) THEN Err("NoDigits")
             ELSE LET p == Call("parse_int_saturating", <<s, i0, <<>>, U64Max>>)
                      has_digits == p[2] > i0
                      f == Call("parse_frac", <<s, skip_dot(s, p[2]), <<>>, 0, TARGET_SCALE>>)
                  IN  IF ~has_digits THEN Err("NoDigits")
                      ELSE IF f[3] # Len(s) THEN Err("TrailingChars")
                      ELSE Ok(Dec(p[1], f[1], f[2], neg))

\* parse_str of AncDec128: the first 18 digits of each part as u64, the
\* remaining ones as u128
parse_str128(s) ==
    IF Len(s) = 0 THEN Err("Empty")
    ELSE LET neg == s[1] = "-"
             i0 == IF neg THEN 1 ELSE 0
         IN  IF i0 >= Len(s) THEN Err("NoDigits")
             ELSE LET s1 == Call("parse_digits", <<s, i0, <<>>, 0, 18>>)
                      p == IF s1[2] = 18
                           THEN Call("parse_int_checked", <<s, s1[3], s1[1], U128Max>>)
                           ELSE Ok(<<s1[1], s1[3]>>)
                  IN  IF p.tag = "err" THEN p
                      ELSE LET has_digits == p.val[2] > i0
                               f1 == Call("parse_digits", <<s, skip_dot(s, p.val[2]), <<>>, 0, 18>>)
                               f == IF f1[2] = 18
                                    THEN Call("parse_frac", <<s, f1[3], f1[1], f1[2], TARGET_SCALE_128>>)
                                    ELSE f1
                           IN  IF ~has_digits /\ f[2] = 0 THEN Err("NoDigits")
                               ELSE IF f[3] # Len(s) THEN Err("TrailingChars")
                               ELSE Ok(Dec(p.val[1], f[1], f[2], neg))

\* parse<T: Display>: the text of the value is written to a StackBuf and
\* handed to parse_str
parse8(s) == Call("parse_str8", <<write_str(16, s)>>)
parse32(s) == Call("parse_str32", <<write_str(32, s)>>)
parse64(s) == Call("parse_str64", <<write_str(64, s)>>)
parse_lib(s) == Call("parse_str_lib", <<write_str(64, s)>>)
parse128(s) == Call("parse_str128", <<write_str(128, s)>>)

\* the operations, by tier
add(t, x, y) ==
    CASE t = 8 -> Call("add8", <<x, y>>) [] t = 32 -> Call("add32", <<x, y>>)
      [] t = 64 -> Call("add64", <<x, y>>) [] t = 128 -> Call("add128", <<x, y>>)

sub(t, x, y) ==
    CASE t = 8 -> Call("sub8", <<x, y>>) [] t = 32 -> Call("sub32", <<x, y>>)
      [] t = 64 -> Call("sub64", <<x, y>>) [] t = 128 -> Call("sub128", <<x, y>>)

mul(t, x, y) ==
    CASE t = 8 -> Call("mul8", <<x, y>>) [] t = 32 -> Call("mul32", <<x, y>>)
      [] t = 64 -> Call("mul64", <<x, y>>) [] t = 128 -> Call("mul128", <<x, y>>)

div(t, x, y) ==
    CASE t = 8 -> Call("div8", <<x, y>>) [] t = 32 -> Call("div32", <<x, y>>)
      [] t = 64 -> Call("div64", <<x, y>>) [] t = 128 -> Call("div128", <<x, y>>)

rem(t, x, y) ==
    CASE t = 8 -> Call("rem8", <<x, y>>) [] t = 32 -> Call("rem32", <<x, y>>)
      [] t = 64 -> Call("rem64", <<x, y>>) [] t = 128 -> Call("rem128", <<x, y>>)

checked_add(t, x, y) ==
    CASE t = 8 -> Call("checked_add8", <<x, y>>) [] t = 32 -> Call("checked_add32", <<x, y>>)
      [] t = 64 -> Call("checked_add64", <<x, y>>) [] t = 128 -> Call("checked_add128", <<x, y>>)

checked_sub(t, x, y) ==
    CASE t = 8 -> Call("checked_sub8", <<x, y>>) [] t = 32 -> Call("checked_sub32", <<x, y>>)
      [] t = 64 -> Call("checked_sub64", <<x, y>>) [] t = 128 -> Call("checked_sub128", <<x, y>>)

checked_mul(t, x, y) ==
    CASE t = 8 -> Call("checked_mul8", <<x, y>>) [] t = 32 -> Call("checked_mul32", <<x, y>>)
      [] t = 64 -> Call("checked_mul64", <<x, y>>) [] t = 128 -> Call("checked_mul128", <<x, y>>)

cmp(t, x, y) ==
    CASE t = 8 -> Call("cmp8", <<x, y>>) [] t = 32 -> Call("cmp32", <<x, y>>)
      [] t = 64 -> Call("cmp64", <<x, y>>) [] t = 128 -> Call("cmp128", <<x, y>>)

hash(t, x) ==
    CASE t = 8 -> Call("hash8", <<x>>) [] t = 32 -> Call("hash32", <<x>>)
      [] t = 64 -> Call("hash64", <<x>>) [] t = 128 -> Call("hash128", <<x>>)

neg(t, x) ==
    CASE t = 8 -> Call("neg8", <<x>>) [] t = 32 -> Call("neg32", <<x>>)
      [] t = 64 -> Call("neg64", <<x>>) [] t = 128 -> Call("neg128", <<x>>)

abs(t, x) ==
    CASE t = 8 -> Call("abs8", <<x>>) [] t = 32 -> Call("abs32", <<x>>)
      [] t = 64 -> Call("abs64", <<x>>) [] t = 128 -> Call("abs128", <<x>>)

sqrt(t, x) ==
    CASE t = 8 -> Call("sqrt8", <<x>>) [] t = 32 -> Call("sqrt32", <<x>>)
      [] t = 64 -> Call("sqrt64", <<x>>) [] t = 128 -> Call("sqrt128", <<x>>)

round(t, x, decimal_places, mode) ==
    CASE t = 8 -> Call("round8", <<x, decimal_places, mode>>)
      [] t = 32 -> Call("round32", <<x, decimal_places, mode>>)
      [] t = 64 -> Call("round64", <<x, decimal_places, mode>>)
      [] t = 128 -> Call("round128", <<x, decimal_places, mode>>)

floor(t, x) ==
    CASE t = 8 -> Call("floor8", <<x>>) [] t = 32 -> Call("floor32", <<x>>)
      [] t = 64 -> Call("floor64", <<x>>) [] t = 128 -> Call("floor128", <<x>>)

ceil(t, x) ==
    CASE t = 8 -> Call("ceil8", <<x>>) [] t = 32 -> Call("ceil32", <<x>>)
      [] t = 64 -> Call("ceil64", <<x>>) [] t = 128 -> Call("ceil128", <<x>>)

trunc(t, x) ==
    CASE t = 8 -> Call("trunc8", <<x>>) [] t = 32 -> Call("trunc32", <<x>>)
      [] t = 64 -> Call("trunc64", <<x>>) [] t = 128 -> Call("trunc128", <<x>>)

fract(t, x) ==
    CASE t = 8 -> Call("fract8", <<x>>) [] t = 32 -> Call("fract32", <<x>>)
      [] t = 64 -> Call("fract64", <<x>>) [] t = 128 -> Call("fract128", <<x>>)

\* the hashes of two values
fmt(t, x, prec) ==
    CASE t = 8 -> Call("fmt8", <<x, prec>>) [] t = 32 -> Call("fmt32", <<x, prec>>)
      [] t = 64 -> Call("fmt64", <<x, prec>>) [] t = 128 -> Call("fmt128", <<x, prec>>)

parse_str(t, s) ==
    CASE t = 8 -> Call("parse_str8", <<s>>) [] t = 32 -> Call("parse_str32", <<s>>)
      [] t = 64 -> Call("parse_str64", <<s>>) [] t = 128 -> Call("parse_str128", <<s>>)

parse(t, s) ==
    CASE t = 8 -> Call("parse8", <<s>>) [] t = 32 -> Call("parse32", <<s>>)
      [] t = 64 -> Call("parse64", <<s>>) [] t = 128 -> Call("parse128", <<s>>)

\* the largest integer part of a tier
MaxIntOf(t) ==
    CASE t = 8 -> Call("Big", <<U8Max>>) [] t = 32 -> U32Max [] t = 64 -> U64Max [] t = 128 -> U128Max

\* texts handed to from_str: no number, malformed numbers, integer parts at
\* and beyond the capacity of the tier, fractional parts longer than the
\* target scale
Literals(t) ==
    { <<>>, <<"-">>, <<"a", "b", "c">>, <<".">>, <<"-", ".">>,
      <<"1", "2", ".", "3", "4", ".", "5", "6">>,
      <<"1", "2", "a">>, <<"+", "1">>, <<" ", "1">>,
      <<".", "5">>, <<"5", ".">>, <<"-", "0">>, <<"0", "0", "7">>,
      <<"1", "0">>, <<"4">>, <<"2", "5", "5">>, <<"2", "5", "6">>, <<"9", "9", "9">>,
      <<"9", "9", "9", "a">>,
      [i \in 1..20 |-> "9"],
      [i \in 1..40 |-> "9"],
      <<"0", ".">> \o [i \in 1..23 |-> DigitChars[(i % 10) + 1]],
      <<"1", ".">> \o [i \in 1..41 |-> "9"],
      Call("fmt_uint", <<MaxIntOf(t)>>),
      Call("fmt_uint", <<(MaxIntOf(t) (+) <<1>>)>>),
      <<"-">> \o Call("fmt_uint", <<(MaxIntOf(t) (+) <<1>>)>>) \o <<".", "5">>,
      Call("fmt_uint", <<Call("BMulSmall", <<MaxIntOf(t), 10>>)>>) }

RECURSIVE ValueFrom(_, _, _)
\* acc followed by the digits of ds from position i on, as a natural
ValueFrom(ds, i, acc) ==
    IF i > Len(ds) THEN acc
    ELSE Call("ValueFrom", <<ds, i + 1, (Call("BMulSmall", <<acc, 10>>) (+) Call("Big", <<wrapping_digit(ds[i])>>))>>)

\* ----------------------------------------------------------------------
\* basic.rs: pow
\* ----------------------------------------------------------------------

\* the constants of a tier
ZERO(t) == IF t = 8 THEN Dec(0, 0, 0, FALSE) ELSE Dec(<<>>, <<>>, 0, FALSE)
ONE(t) == IF t = 8 THEN Dec(1, 0, 0, FALSE) ELSE Dec(<<1>>, <<>>, 0, FALSE)
TWO(t) == IF t = 8 THEN Dec(2, 0, 0, FALSE) ELSE Dec(<<2>>, <<>>, 0, FALSE)
TEN(t) == IF t = 8 THEN Dec(10, 0, 0, FALSE) ELSE Dec(<<10>>, <<>>, 0, FALSE)
MAX(t) ==
    CASE t = 8 -> Dec(U8Max, 99, 2, FALSE)
      [] t = 32 -> Dec(U32Max, (Call("BPow10", <<9>>) (-) <<1>>), 9, FALSE)
      [] t = 64 -> Dec(U64Max, (Call("BPow10", <<19>>) (-) <<1>>), 19, FALSE)
      [] t = 128 -> Dec(U128Max, (Call("BPow10", <<38>>) (-) <<1>>), 38, FALSE)

\* the result of a loop that ran iters times
Ran(v, iters) == [tag |-> "ok", val |-> v, iters |-> iters]

RECURSIVE pow_loop(_, _, _, _, _)
\* while exp > 0: the result is multiplied by the base when exp is odd, the
\* base is squared in every iteration, the last one included, and a
\* multiplication that panics ends the loop
pow_loop(t, base, exp, result, iters) ==
    IF exp = 0 THEN Ran(result, iters)
    ELSE LET r == IF exp % 2 = 1 THEN Call("mul", <<t, result, base>>) ELSE Ok(result)
         IN  IF r.tag = "abort" THEN Abort
             ELSE LET sq == Call("mul", <<t, base, base>>)
                  IN  IF sq.tag = "abort" THEN Abort
                      ELSE Call("pow_loop", <<t, sq.val, exp \div 2, r.val, iters + 1>>)

\* a pow that raises self to |n| and takes the reciprocal of the power
pow8_power_first(self, n) ==
    IF n = 0 THEN Ran(ONE(8), 0)
    ELSE IF n < 0 /\ is_zero8(self) THEN Abort
    ELSE LET p == Call("pow_loop", <<8, self, IF n < 0 THEN 0 - n ELSE n, ONE(8), 0>>)
         IN  IF p.tag = "abort" \/ n > 0 THEN p
             ELSE IF is_zero8(p.val) THEN Abort
             ELSE LET q == Call("div8", <<ONE(8), p.val>>)
                  IN  IF q.tag = "abort" THEN Abort ELSE Ran(q.val, p.iters)

\* pow: ONE for n = 0; for n < 0 the base is ONE / self, which panics for a
\* zero self; the exponent is n.unsigned_abs()
pow8(self, n) ==
    IF n = 0 THEN Ran(ONE(8), 0)
    ELSE LET base == IF n < 0
                     THEN IF is_zero8(self) THEN Abort ELSE Call("div8", <<ONE(8), self>>)
                     ELSE Ok(self)
         IN  IF base.tag = "abort" THEN Abort
             ELSE Call("pow_loop", <<8, base.val, IF n < 0 THEN 0 - n ELSE n, ONE(8), 0>>)

pow32(self, n) ==
    IF n = 0 THEN Ran(ONE(32), 0)
    ELSE LET base == IF n < 0
                     THEN IF is_zero32(self) THEN Abort ELSE Call("div32", <<ONE(32), self>>)
                     ELSE Ok(self)
         IN  IF base.tag = "abort" THEN Abort
             ELSE Call("pow_loop", <<32, base.val, IF n < 0 THEN 0 - n ELSE n, ONE(32), 0>>)

pow64(self, n) ==
    IF n = 0 THEN Ran(ONE(64), 0)
    ELSE LET base == IF n < 0
                     THEN IF is_zero64(self) THEN Abort ELSE Call("div64", <<ONE(64), self>>)
                     ELSE Ok(self)
         IN  IF base.tag = "abort" THEN Abort
             ELSE Call("pow_loop", <<64, base.val, IF n < 0 THEN 0 - n ELSE n, ONE(64), 0>>)

pow128(self, n) ==
    IF n = 0 THEN Ran(ONE(128), 0)
    ELSE LET base == IF n < 0
                     THEN IF is_zero128(self) THEN Abort ELSE Call("div128", <<ONE(128), self>>)
                     ELSE Ok(self)
         IN  IF base.tag = "abort" THEN Abort
             ELSE Call("pow_loop", <<128, base.val, IF n < 0 THEN 0 - n ELSE n, ONE(128), 0>>)

pow(t, x, n) ==
    CASE t = 8 -> Call("pow8", <<x, n>>) [] t = 32 -> Call("pow32", <<x, n>>)
      [] t = 64 -> Call("pow64", <<x, n>>) [] t = 128 -> Call("pow128", <<x, n>>)

\* the values a chain starts from: results of parse and constants of the tier
ChainSamples(t) ==
    {Call("parse_str", <<t, <<"-", "1", ".", "5">>>>).val, MAX(t)}

hashes(t, x, y) == <<Call("hash", <<t, x>>), Call("hash", <<t, y>>)>>


\* ======================================================================
\* Calls
\* ======================================================================

Call(f, x) ==
  CASE x # x -> x
    [] f = "BAdd" -> BAdd(x[1], x[2])
    [] f = "BSub" -> BSub(x[1], x[2])
    [] f = "BMul" -> BMul(x[1], x[2])
    [] f = "BCmp" -> BCmp(x[1], x[2])
    [] f = "BLt" -> BLt(x[1], x[2])
    [] f = "BLe" -> BLe(x[1], x[2])
    [] f = "BGt" -> BGt(x[1], x[2])
    [] f = "BGe" -> BGe(x[1], x[2])
    [] f = "BNorm" -> BNorm(x[1])
    [] f = "BCarry" -> BCarry(x[1])
    [] f = "BDivMod" -> BDivMod(x[1], x[2])
    [] f = "BDiv" -> BDiv(x[1], x[2])
    [] f = "BMod" -> BMod(x[1], x[2])
    [] f = "Big" -> Big(x[1])
    [] f = "BDec" -> BDec(x[1])
    [] f = "Small" -> Small(x[1])
    [] f = "Lo64" -> Lo64(x[1])
    [] f = "Hi64" -> Hi64(x[1])
    [] f = "Join64" -> Join64(x[1], x[2])
    [] f = "Lo" -> Lo(x[1], x[2])
    [] f = "Shr" -> Shr(x[1], x[2])
    [] f = "Shl" -> Shl(x[1], x[2], x[3])
    [] f = "Pow2" -> Pow2(x[1])
    [] f = "WrapSub" -> WrapSub(x[1], x[2], x[3])
    [] f = "WrapAdd" -> WrapAdd(x[1], x[2], x[3])
    [] f = "BCarryR" -> BCarryR(x[1], x[2], x[3], x[4])
    [] f = "BMulSmall" -> BMulSmall(x[1], x[2])
    [] f = "BColSum" -> BColSum(x[1], x[2], x[3], x[4], x[5])
    [] f = "BRev" -> BRev(x[1])
    [] f = "BDivSmallR" -> BDivSmallR(x[1], x[2], x[3], x[4], x[5])
    [] f = "BDivSmall" -> BDivSmall(x[1], x[2])
    [] f = "BDigit" -> BDigit(x[1], x[2], x[3], x[4])
    [] f = "BQuotDigit" -> BQuotDigit(x[1], x[2])
    [] f = "BDivLongR" -> BDivLongR(x[1], x[2], x[3], x[4], x[5])
    [] f = "BPow10" -> BPow10(x[1])
    [] f = "BPow2" -> BPow2(x[1])
    [] f = "pow10" -> pow10(x[1])
    [] f = "pow10_128" -> pow10_128(x[1])
    [] f = "BitLenIn" -> BitLenIn(x[1], x[2], x[3])
    [] f = "BitLen" -> BitLen(x[1])
    [] f = "leading_zeros" -> leading_zeros(x[1], x[2])
    [] f = "overflowing_sub128" -> overflowing_sub128(x[1], x[2])
    [] f = "mul_wide" -> mul_wide(x[1], x[2])
    [] f = "shl_u256" -> shl_u256(x[1], x[2], x[3])
    [] f = "div_u128_by_u64" -> div_u128_by_u64(x[1], x[2])
    [] f = "div_wide_by_u64" -> div_wide_by_u64(x[1], x[2], x[3])
    [] f = "div_3by2" -> div_3by2(x[1], x[2], x[3], x[4], x[5])
    [] f = "div_4by2" -> div_4by2(x[1], x[2], x[3], x[4], x[5], x[6])
    [] f = "div_wide" -> div_wide(x[1], x[2], x[3])
    [] f = "overflowing_add128" -> overflowing_add128(x[1], x[2])
    [] f = "mul_u256" -> mul_u256(x[1], x[2])
    [] f = "sub_q_times_d" -> sub_q_times_d(x[1], x[2], x[3], x[4])
    [] f = "div_u512_by_u128" -> div_u512_by_u128(x[1], x[2], x[3], x[4], x[5])
    [] f = "divmod_u256" -> divmod_u256(x[1], x[2], x[3])
    [] f = "shl_u512" -> shl_u512(x[1], x[2], x[3], x[4], x[5])
    [] f = "gt_pair" -> gt_pair(x[1], x[2], x[3], x[4])
    [] f = "div_3by2_128" -> div_3by2_128(x[1], x[2], x[3], x[4], x[5])
    [] f = "div_u512_by_u256" -> div_u512_by_u256(x[1], x[2], x[3], x[4], x[5], x[6])
    [] f = "is_zero32" -> is_zero32(x[1])
    [] f = "align_frac32" -> align_frac32(x[1], x[2])
    [] f = "add_aligned32" -> add_aligned32(x[1], x[2], x[3], x[4], x[5], x[6])
    [] f = "sub_with_cmp32" -> sub_with_cmp32(x[1], x[2], x[3], x[4], x[5], x[6], x[7], x[8])
    [] f = "from_combined32" -> from_combined32(x[1], x[2], x[3])
    [] f = "checked_from_combined32" -> checked_from_combined32(x[1], x[2], x[3])
    [] f = "combined32" -> combined32(x[1])
    [] f = "add32" -> add32(x[1], x[2])
    [] f = "sub32" -> sub32(x[1], x[2])
    [] f = "mul_reduce32" -> mul_reduce32(x[1], x[2])
    [] f = "mul32" -> mul32(x[1], x[2])
    [] f = "checked_mul32" -> checked_mul32(x[1], x[2])
    [] f = "div32" -> div32(x[1], x[2])
    [] f = "checked_add32" -> checked_add32(x[1], x[2])
    [] f = "checked_sub32" -> checked_sub32(x[1], x[2])
    [] f = "rem32" -> rem32(x[1], x[2])
    [] f = "cmp_abs_32" -> cmp_abs_32(x[1], x[2])
    [] f = "cmp32" -> cmp32(x[1], x[2])
    [] f = "neg32" -> neg32(x[1])
    [] f = "abs32" -> abs32(x[1])
    [] f = "hash32" -> hash32(x[1])
    [] f = "is_zero64" -> is_zero64(x[1])
    [] f = "align_frac64" -> align_frac64(x[1], x[2])
    [] f = "frac_sum64" -> frac_sum64(x[1], x[2], x[3])
    [] f = "add_aligned64" -> add_aligned64(x[1], x[2], x[3], x[4], x[5], x[6])
    [] f = "sub_with_cmp64" -> sub_with_cmp64(x[1], x[2], x[3], x[4], x[5], x[6], x[7], x[8])
    [] f = "from_combined64" -> from_combined64(x[1], x[2], x[3])
    [] f = "checked_from_combined64" -> checked_from_combined64(x[1], x[2], x[3])
    [] f = "combined64" -> combined64(x[1])
    [] f = "add64" -> add64(x[1], x[2])
    [] f = "sub64" -> sub64(x[1], x[2])
    [] f = "mul_reduce64" -> mul_reduce64(x[1], x[2])
    [] f = "mul64" -> mul64(x[1], x[2])
    [] f = "checked_mul64" -> checked_mul64(x[1], x[2])
    [] f = "div64" -> div64(x[1], x[2])
    [] f = "checked_add64" -> checked_add64(x[1], x[2])
    [] f = "checked_sub64" -> checked_sub64(x[1], x[2])
    [] f = "rem64" -> rem64(x[1], x[2])
    [] f = "cmp_abs" -> cmp_abs(x[1], x[2])
    [] f = "cmp64" -> cmp64(x[1], x[2])
    [] f = "neg64" -> neg64(x[1])
    [] f = "abs64" -> abs64(x[1])
    [] f = "hash64" -> hash64(x[1])
    [] f = "pow10_256" -> pow10_256(x[1])
    [] f = "is_zero128" -> is_zero128(x[1])
    [] f = "combine" -> combine(x[1], x[2], x[3])
    [] f = "align_frac128" -> align_frac128(x[1], x[2])
    [] f = "try_combine_u64" -> try_combine_u64(x[1], x[2], x[3])
    [] f = "try_combine_u128" -> try_combine_u128(x[1], x[2], x[3])
    [] f = "add_aligned128" -> add_aligned128(x[1], x[2], x[3], x[4], x[5], x[6])
    [] f = "sub_with_cmp128" -> sub_with_cmp128(x[1], x[2], x[3], x[4], x[5], x[6], x[7], x[8])
    [] f = "from_combined128" -> from_combined128(x[1], x[2], x[3])
    [] f = "checked_from_combined128" -> checked_from_combined128(x[1], x[2], x[3])
    [] f = "add128" -> add128(x[1], x[2])
    [] f = "sub128" -> sub128(x[1], x[2])
    [] f = "mul_path128" -> mul_path128(x[1], x[2])
    [] f = "mul_ultra128" -> mul_ultra128(x[1], x[2], x[3], x[4])
    [] f = "mul_partial128" -> mul_partial128(x[1], x[2], x[3], x[4])
    [] f = "mul_wide128" -> mul_wide128(x[1], x[2], x[3], x[4])
    [] f = "mul128" -> mul128(x[1], x[2])
    [] f = "checked_mul128" -> checked_mul128(x[1], x[2])
    [] f = "div_decomposed128" -> div_decomposed128(x[1], x[2], x[3], x[4])
    [] f = "div_path128" -> div_path128(x[1], x[2])
    [] f = "div128" -> div128(x[1], x[2])
    [] f = "checked_add128" -> checked_add128(x[1], x[2])
    [] f = "checked_sub128" -> checked_sub128(x[1], x[2])
    [] f = "rem128" -> rem128(x[1], x[2])
    [] f = "cmp_abs_128" -> cmp_abs_128(x[1], x[2])
    [] f = "cmp128" -> cmp128(x[1], x[2])
    [] f = "neg128" -> neg128(x[1])
    [] f = "abs128" -> abs128(x[1])
    [] f = "strip_u256" -> strip_u256(x[1], x[2])
    [] f = "hash128" -> hash128(x[1])
    [] f = "add" -> add(x[1], x[2], x[3])
    [] f = "sub" -> sub(x[1], x[2], x[3])
    [] f = "mul" -> mul(x[1], x[2], x[3])
    [] f = "div" -> div(x[1], x[2], x[3])
    [] f = "rem" -> rem(x[1], x[2], x[3])
    [] f = "checked_add" -> checked_add(x[1], x[2], x[3])
    [] f = "checked_sub" -> checked_sub(x[1], x[2], x[3])
    [] f = "checked_mul" -> checked_mul(x[1], x[2], x[3])
    [] f = "cmp" -> cmp(x[1], x[2], x[3])
    [] f = "hash" -> hash(x[1], x[2])
    [] f = "neg" -> neg(x[1], x[2])
    [] f = "abs" -> abs(x[1], x[2])
    [] f = "hashes" -> hashes(x[1], x[2], x[3])
    [] f = "Samples" -> Samples(x[1])
    [] f = "abs8" -> abs8(x[1])
    [] f = "add8" -> add8(x[1], x[2])
    [] f = "add_aligned8" -> add_aligned8(x[1], x[2], x[3], x[4], x[5], x[6])
    [] f = "align_frac8" -> align_frac8(x[1], x[2])
    [] f = "checked_add8" -> checked_add8(x[1], x[2])
    [] f = "checked_mul8" -> checked_mul8(x[1], x[2])
    [] f = "checked_sub8" -> checked_sub8(x[1], x[2])
    [] f = "cmp8" -> cmp8(x[1], x[2])
    [] f = "cmp_abs_8" -> cmp_abs_8(x[1], x[2])
    [] f = "combined8" -> combined8(x[1])
    [] f = "div8" -> div8(x[1], x[2])
    [] f = "hash8" -> hash8(x[1])
    [] f = "is_zero8" -> is_zero8(x[1])
    [] f = "mul8" -> mul8(x[1], x[2])
    [] f = "neg8" -> neg8(x[1])
    [] f = "rem8" -> rem8(x[1], x[2])
    [] f = "sub8" -> sub8(x[1], x[2])
    [] f = "sub_with_cmp8" -> sub_with_cmp8(x[1], x[2], x[3], x[4], x[5], x[6], x[7], x[8])
    [] f = "refine_3by2" -> refine_3by2(x[1], x[2], x[3], x[4], x[5])
    [] f = "correct_3by2" -> correct_3by2(x[1], x[2], x[3], x[4], x[5], x[6])
    [] f = "addback_3by2" -> addback_3by2(x[1], x[2], x[3], x[4], x[5], x[6], x[7])
    [] f = "estimate_3by2" -> estimate_3by2(x[1], x[2], x[3], x[4], x[5])
    [] f = "refine_3by2_128" -> refine_3by2_128(x[1], x[2], x[3], x[4], x[5], x[6])
    [] f = "estimate_3by2_128" -> estimate_3by2_128(x[1], x[2], x[3], x[4], x[5], x[6])
    [] f = "sub_3by2_128" -> sub_3by2_128(x[1], x[2], x[3], x[4], x[5], x[6])
    [] f = "borrow_3by2_128" -> borrow_3by2_128(x[1], x[2], x[3], x[4])
    [] f = "addback_3by2_128" -> addback_3by2_128(x[1], x[2], x[3], x[4], x[5])
    [] f = "finish_3by2_128" -> finish_3by2_128(x[1], x[2], x[3], x[4], x[5], x[6])
    [] f = "newton_step" -> newton_step(x[1], x[2])
    [] f = "isqrt_u128_loop" -> isqrt_u128_loop(x[1], x[2])
    [] f = "isqrt_u128" -> isqrt_u128(x[1])
    [] f = "isqrt_u256_loop" -> isqrt_u256_loop(x[1], x[2], x[3])
    [] f = "isqrt_u256" -> isqrt_u256(x[1], x[2])
    [] f = "isqrt_u256_fix" -> isqrt_u256_fix(x[1], x[2], x[3], x[4])
    [] f = "u512" -> u512(x[1])
    [] f = "newton_step_u256" -> newton_step_u256(x[1], x[2])
    [] f = "halve_u256" -> halve_u256(x[1], x[2], x[3])
    [] f = "isqrt_u512_loop" -> isqrt_u512_loop(x[1], x[2])
    [] f = "isqrt_u512_fix" -> isqrt_u512_fix(x[1], x[2], x[3])
    [] f = "isqrt_u512" -> isqrt_u512(x[1], x[2], x[3], x[4])
    [] f = "isqrt_u32_loop" -> isqrt_u32_loop(x[1], x[2])
    [] f = "isqrt_u32" -> isqrt_u32(x[1])
    [] f = "sqrt8" -> sqrt8(x[1])
    [] f = "sqrt32" -> sqrt32(x[1])
    [] f = "sqrt64" -> sqrt64(x[1])
    [] f = "sqrt128" -> sqrt128(x[1])
    [] f = "sqrt" -> sqrt(x[1], x[2])
    [] f = "should_round_up" -> should_round_up(x[1], x[2], x[3], x[4], x[5])
    [] f = "round32" -> round32(x[1], x[2], x[3])
    [] f = "round32_padding" -> round32_padding(x[1], x[2], x[3])
    [] f = "round_cut32" -> round_cut32(x[1], x[2], x[3])
    [] f = "floor32" -> floor32(x[1])
    [] f = "ceil32" -> ceil32(x[1])
    [] f = "trunc32" -> trunc32(x[1])
    [] f = "fract32" -> fract32(x[1])
    [] f = "round64" -> round64(x[1], x[2], x[3])
    [] f = "floor64" -> floor64(x[1])
    [] f = "ceil64" -> ceil64(x[1])
    [] f = "trunc64" -> trunc64(x[1])
    [] f = "fract64" -> fract64(x[1])
    [] f = "round128" -> round128(x[1], x[2], x[3])
    [] f = "round_up128" -> round_up128(x[1], x[2], x[3], x[4], x[5], x[6])
    [] f = "floor128" -> floor128(x[1])
    [] f = "ceil128" -> ceil128(x[1])
    [] f = "trunc128" -> trunc128(x[1])
    [] f = "fract128" -> fract128(x[1])
    [] f = "from_combined8" -> from_combined8(x[1], x[2], x[3])
    [] f = "round8" -> round8(x[1], x[2], x[3])
    [] f = "floor8" -> floor8(x[1])
    [] f = "ceil8" -> ceil8(x[1])
    [] f = "trunc8" -> trunc8(x[1])
    [] f = "fract8" -> fract8(x[1])
    [] f = "round" -> round(x[1], x[2], x[3], x[4])
    [] f = "floor" -> floor(x[1], x[2])
    [] f = "ceil" -> ceil(x[1], x[2])
    [] f = "trunc" -> trunc(x[1], x[2])
    [] f = "fract" -> fract(x[1], x[2])
    [] f = "SamplesUnary" -> SamplesUnary(x[1])
    [] f = "fmt_small" -> fmt_small(x[1])
    [] f = "fmt_limbs" -> fmt_limbs(x[1], x[2])
    [] f = "fmt_uint" -> fmt_uint(x[1])
    [] f = "write_parts" -> write_parts(x[1], x[2], x[3], x[4], x[5])
    [] f = "fmt8" -> fmt8(x[1], x[2])
    [] f = "fmt32" -> fmt32(x[1], x[2])
    [] f = "fmt64" -> fmt64(x[1], x[2])
    [] f = "fmt128" -> fmt128(x[1], x[2])
    [] f = "parse_digits" -> parse_digits(x[1], x[2], x[3], x[4], x[5])
    [] f = "parse_int_checked" -> parse_int_checked(x[1], x[2], x[3], x[4])
    [] f = "parse_int_saturating" -> parse_int_saturating(x[1], x[2], x[3], x[4])
    [] f = "parse_frac" -> parse_frac(x[1], x[2], x[3], x[4], x[5])
    [] f = "parse_str_checked" -> parse_str_checked(x[1], x[2], x[3])
    [] f = "parse_str8" -> parse_str8(x[1])
    [] f = "parse_str32" -> parse_str32(x[1])
    [] f = "parse_str64" -> parse_str64(x[1])
    [] f = "parse_str_lib" -> parse_str_lib(x[1])
    [] f = "parse_str128" -> parse_str128(x[1])
    [] f = "parse8" -> parse8(x[1])
    [] f = "parse32" -> parse32(x[1])
    [] f = "parse64" -> parse64(x[1])
    [] f = "parse_lib" -> parse_lib(x[1])
    [] f = "parse128" -> parse128(x[1])
    [] f = "fmt" -> fmt(x[1], x[2], x[3])
    [] f = "parse_str" -> parse_str(x[1], x[2])
    [] f = "parse" -> parse(x[1], x[2])
    [] f = "Literals" -> Literals(x[1])
    [] f = "ValueFrom" -> ValueFrom(x[1], x[2], x[3])
    [] f = "pow_loop" -> pow_loop(x[1], x[2], x[3], x[4], x[5])
    [] f = "pow8" -> pow8(x[1], x[2])
    [] f = "pow32" -> pow32(x[1], x[2])
    [] f = "pow64" -> pow64(x[1], x[2])
    [] f = "pow128" -> pow128(x[1], x[2])
    [] f = "pow" -> pow(x[1], x[2], x[3])
    [] f = "ChainSamples" -> ChainSamples(x[1])
    [] f = "parse_str_checked_lenient" -> parse_str_checked_lenient(x[1], x[2], x[3])
    [] f = "parse_frac_stopping" -> parse_frac_stopping(x[1], x[2], x[3], x[4], x[5])
    [] f = "mul_wide_lib" -> mul_wide_lib(x[1], x[2], x[3])
    [] f = "steps_3by2" -> steps_3by2(x[1], x[2], x[3], x[4], x[5])
    [] f = "step_of_div_wide" -> step_of_div_wide(x[1], x[2], x[3], x[4])
    [] f = "steps_3by2_128" -> steps_3by2_128(x[1], x[2], x[3], x[4], x[5])


\* ======================================================================
\* The library as a state machine: a program holds a tier, two operands
\* and the outcome of the operation it last applied
\* ======================================================================

VARIABLES tier, a, b, op, arg, res, budget

vars == <<tier, a, b, op, arg, res, budget>>

Tiers == {8, 32, 64, 128}

\* the decimal places a round is asked for
RoundPlaces == {0, 1, 2, 8, 37}

\* the precisions a text is asked for: none, or a number of digits
Precisions == {None, Some(0), Some(2), Some(5)}

\* the exponents of pow
PowExps == {0 - 2, 0, 1, 3}

\* a text, as the result of an operation
Text(s) == [tag |-> "text", val |-> s]

Init ==
    /\ tier \in Tiers
    /\ \E S \in {Call("Samples", <<tier>>)} : a \in S /\ b \in S
    /\ op = "init"
    /\ arg = 0
    /\ res = Ok(a)
    /\ budget = 1

\* an operation can be applied to the value the program holds
CanStep == budget > 0 /\ res.tag \in {"ok", "some"} /\ op \notin {"cmp", "hash"}

\* the value the program holds becomes the left operand of the operation
Operand ==
    /\ a' = res.val
    /\ budget' = budget - 1
    /\ UNCHANGED <<tier, b>>

Add ==
    /\ CanStep
    /\ op' = "add"
    /\ res' = Call("add", <<tier, res.val, b>>)
    /\ arg' = 0
    /\ Operand

Sub ==
    /\ CanStep
    /\ op' = "sub"
    /\ res' = Call("sub", <<tier, res.val, b>>)
    /\ arg' = 0
    /\ Operand

Mul ==
    /\ CanStep
    /\ op' = "mul"
    /\ res' = Call("mul", <<tier, res.val, b>>)
    /\ arg' = 0
    /\ Operand

Div ==
    /\ CanStep
    /\ op' = "div"
    /\ res' = Call("div", <<tier, res.val, b>>)
    /\ arg' = 0
    /\ Operand

Rem ==
    /\ CanStep
    /\ op' = "rem"
    /\ res' = Call("rem", <<tier, res.val, b>>)
    /\ arg' = 0
    /\ Operand

CheckedAdd ==
    /\ CanStep
    /\ op' = "checked_add"
    /\ res' = Call("checked_add", <<tier, res.val, b>>)
    /\ arg' = 0
    /\ Operand

CheckedSub ==
    /\ CanStep
    /\ op' = "checked_sub"
    /\ res' = Call("checked_sub", <<tier, res.val, b>>)
    /\ arg' = 0
    /\ Operand

CheckedMul ==
    /\ CanStep
    /\ op' = "checked_mul"
    /\ res' = Call("checked_mul", <<tier, res.val, b>>)
    /\ arg' = 0
    /\ Operand

Cmp ==
    /\ CanStep
    /\ op' = "cmp"
    /\ res' = Ok(Call("cmp", <<tier, res.val, b>>))
    /\ arg' = 0
    /\ Operand

Hash ==
    /\ CanStep
    /\ op' = "hash"
    /\ res' = Ok(Call("hashes", <<tier, res.val, b>>))
    /\ arg' = 0
    /\ Operand

Neg ==
    /\ CanStep
    /\ op' = "neg"
    /\ res' = Ok(Call("neg", <<tier, res.val>>))
    /\ arg' = 0
    /\ Operand

Abs ==
    /\ CanStep
    /\ op' = "abs"
    /\ res' = Ok(Call("abs", <<tier, res.val>>))
    /\ arg' = 0
    /\ Operand

Sqrt ==
    /\ CanStep
    /\ op' = "sqrt"
    /\ res' = Call("sqrt", <<tier, res.val>>)
    /\ arg' = 0
    /\ Operand

Round ==
    /\ CanStep
    /\ op' = "round"
    /\ \E decimal_places \in RoundPlaces, mode \in RoundMode :
        /\ arg' = <<decimal_places, mode>>
        /\ res' = Call("round", <<tier, res.val, decimal_places, mode>>)
    /\ Operand

Floor ==
    /\ CanStep
    /\ op' = "floor"
    /\ res' = Call("floor", <<tier, res.val>>)
    /\ arg' = 0
    /\ Operand

Ceil ==
    /\ CanStep
    /\ op' = "ceil"
    /\ res' = Call("ceil", <<tier, res.val>>)
    /\ arg' = 0
    /\ Operand

Trunc ==
    /\ CanStep
    /\ op' = "trunc"
    /\ res' = Call("trunc", <<tier, res.val>>)
    /\ arg' = 0
    /\ Operand

Fract ==
    /\ CanStep
    /\ op' = "fract"
    /\ res' = Call("fract", <<tier, res.val>>)
    /\ arg' = 0
    /\ Operand

\* to_string / format!: the value the program holds, an operand or a
\* quotient, is written as a text
Format ==
    /\ op \in {"init", "div"}
    /\ res.tag = "ok"
    /\ op' = "format"
    /\ \E prec \in Precisions :
        /\ arg' = <<prec, op>>
        /\ res' = Text(Call("fmt", <<tier, res.val, prec>>))
    /\ UNCHANGED <<tier, a, b, budget>>

\* parse: the text written before is parsed
Parse ==
    /\ op = "format"
    /\ op' = "parse"
    /\ res' = Call("parse", <<tier, res.val>>)
    /\ arg' = <<arg[1], res.val>>
    /\ UNCHANGED <<tier, a, b, budget>>

\* from_str: a text is parsed
FromStr ==
    /\ op = "init"
    /\ op' = "from_str"
    /\ \E S \in {Call("Literals", <<tier>>)} : \E s \in S :
        /\ arg' = <<None, s>>
        /\ res' = Call("parse_str", <<tier, s>>)
    /\ UNCHANGED <<tier, a, b, budget>>

\* parse of lib.rs: the text written before is parsed
ParseLib ==
    /\ tier = 64
    /\ op = "format"
    /\ op' = "parse_lib"
    /\ res' = Call("parse_lib", <<res.val>>)
    /\ arg' = <<arg[1], res.val>>
    /\ UNCHANGED <<tier, a, b, budget>>

\* from_str of lib.rs: a text is parsed
FromStrLib ==
    /\ tier = 64
    /\ op = "init"
    /\ op' = "from_str_lib"
    /\ \E S \in {Call("Literals", <<tier>>)} : \E s \in S :
        /\ arg' = <<None, s>>
        /\ res' = Call("parse_str_lib", <<s>>)
    /\ UNCHANGED <<tier, a, b, budget>>

Pow ==
    /\ CanStep
    /\ op' = "pow"
    /\ \E n \in PowExps :
        /\ arg' = n
        /\ res' = Call("pow", <<tier, res.val, n>>)
    /\ Operand

Next ==
    \/ Add
    \/ Sub
    \/ Mul
    \/ Div
    \/ Rem
    \/ CheckedAdd
    \/ CheckedSub
    \/ CheckedMul
    \/ Cmp
    \/ Hash
    \/ Neg
    \/ Abs

Spec == Init /\ [][Next]_vars

\* The operations of one operand, applied to one value of a tier
InitUnary ==
    /\ tier \in Tiers
    /\ \E S \in {Call("SamplesUnary", <<tier>>)} : a \in S
    /\ b = a
    /\ op = "init"
    /\ arg = 0
    /\ res = Ok(a)
    /\ budget = 1

NextUnary ==
    \/ Pow
    \/ Sqrt
    \/ Round
    \/ Floor
    \/ Ceil
    \/ Trunc
    \/ Fract

SpecUnary == InitUnary /\ [][NextUnary]_vars

\* Texts: a value of a tier is written and parsed back, and texts are parsed
NextText ==
    \/ Format
    \/ Parse
    \/ FromStr
    \/ ParseLib
    \/ FromStrLib

SpecText == InitUnary /\ [][NextText]_vars

\* the texts the operands of a quotient are parsed from
QuotTexts ==
    { <<"1", "0">>, <<"4">>, <<"1">>, <<"3">>, <<"-", "7">>, <<"2", ".", "5">>, <<"0", ".", "0", "4">> }

\* Quotients: two parsed values are divided and the quotient is written
InitQuot ==
    /\ tier \in Tiers
    /\ \E s \in QuotTexts, d \in QuotTexts :
        \E p \in {<<Call("parse_str", <<tier, s>>), Call("parse_str", <<tier, d>>)>>} :
            /\ a = p[1].val
            /\ b = p[2].val
    /\ op = "init"
    /\ arg = 0
    /\ res = Ok(a)
    /\ budget = 1

NextQuot ==
    \/ Div
    \/ Format

SpecQuot == InitQuot /\ [][NextQuot]_vars

\* the longest chain of operations
MaxChain == 2

\* Chains: a constant of the tier or a parsed value goes through MaxChain
\* operations, each applied to the result of the one before
InitChain ==
    /\ tier \in Tiers
    /\ \E S \in {Call("ChainSamples", <<tier>>)} : a \in S
    /\ b = a
    /\ op = "init"
    /\ arg = 0
    /\ res = Ok(a)
    /\ budget = MaxChain

NextChain ==
    \/ Add
    \/ Sub
    \/ Mul
    \/ Div
    \/ Rem
    \/ Neg
    \/ Abs
    \/ Pow
    \/ Sqrt
    \/ Round
    \/ Floor
    \/ Ceil
    \/ Trunc
    \/ Fract

SpecChain == InitChain /\ [][NextChain]_vars

\* ======================================================================
\* The kernels of wide.rs and lib.rs on their own operands
\* ======================================================================

\* u128 operands: the ends of the range, the limb boundary and mixed limbs
KernelWords ==
    { <<>>, <<1>>, U64Max, Pow2_64, (Pow2_64 (+) <<1>>), Call("Pow2", <<127>>),
      (U128Max (-) U64Max), Call("BPow10", <<38>>), (U128Max (-) <<1>>), U128Max }

\* u256 operands <<hi, lo>>
KernelPairs ==
    { <<<<>>, U128Max>>, <<<<1>>, <<>>>>, <<U64Max, Pow2_64>>,
      <<Call("BPow10", <<38>>), (U128Max (-) <<1>>)>>,
      <<Call("Pow2", <<127>>), <<1>>>>, <<U128Max, U128Max>> }

\* The multiplication kernels: the operands are two u128 in the 64-bit
\* configuration and two u256 in the 128-bit one
InitMul ==
    /\ tier \in {64, 128}
    /\ \E S \in {IF tier = 64 THEN KernelWords ELSE KernelPairs} : a \in S /\ b \in S
    /\ op = "init"
    /\ arg = <<>>
    /\ res = Ok(<<>>)
    /\ budget = 1

MulWide ==
    /\ op = "init" /\ tier = 64
    /\ op' = "mul_wide"
    /\ res' = Ok(Call("mul_wide", <<a, b>>))
    /\ UNCHANGED <<tier, a, b, arg, budget>>

\* the two ways a build treats an overflowing addition
Builds == {"overflow-checks", "wrapping"}

MulWideLib ==
    /\ op = "init" /\ tier = 64
    /\ op' = "mul_wide_lib"
    /\ \E build \in Builds :
        /\ arg' = <<build>>
        /\ res' = Call("mul_wide_lib", <<a, b, build = "overflow-checks">>)
    /\ UNCHANGED <<tier, a, b, budget>>

MulU256 ==
    /\ op = "init" /\ tier = 128
    /\ op' = "mul_u256"
    /\ res' = Ok(Call("mul_u256", <<a, b>>))
    /\ UNCHANGED <<tier, a, b, arg, budget>>

NextMul ==
    \/ MulWide
    \/ MulWideLib
    \/ MulU256

SpecMul == InitMul /\ [][NextMul]_vars

\* the high and low halves of the dividends, and the low limbs
DivWords == { <<>>, <<1>>, U64Max, Pow2_64, Call("BPow10", <<38>>), U128Max }

\* the divisors: zero, one 64-bit limb, two limbs, and normalized ones
Divisors ==
    { <<>>, U64Max, (Pow2_64 (+) <<1>>), Call("BPow10", <<38>>), Call("Pow2", <<127>>),
      (Call("Pow2", <<127>>) (+) U64Max), U128Max }

\* The division kernels: the dividend (high, low) = (a, b) and a divisor
InitDiv ==
    /\ tier \in {64, 128}
    /\ a \in DivWords
    /\ b \in DivWords
    /\ arg \in {<<d>> : d \in Divisors}
    /\ op = "init"
    /\ res = Ok(<<>>)
    /\ budget = 1

DivWide ==
    /\ op = "init" /\ tier = 64
    /\ op' = "div_wide"
    /\ res' = Call("div_wide", <<a, b, arg[1]>>)
    /\ UNCHANGED <<tier, a, b, arg, budget>>

\* one of the two 3-by-2 steps div_wide takes on a two-limb divisor
Div3by2 ==
    /\ op = "init" /\ tier = 64
    /\ ~BZero(a) /\ (a \prec arg[1]) /\ ~BZero(Call("Hi64", <<arg[1]>>))
    /\ op' = "div_3by2"
    /\ \E step \in {1, 2} :
        /\ arg' = <<arg[1], step>>
        /\ res' = Ok(Call("step_of_div_wide", <<a, b, arg[1], step>>))
    /\ UNCHANGED <<tier, a, b, budget>>

\* the 3-by-2 step on u128 limbs: (a, b, n0) / (d1, d0) for a normalized d1
Div3by2_128 ==
    /\ op = "init" /\ tier = 128
    /\ (arg[1] \succeq Call("Pow2", <<127>>))
    /\ op' = "div_3by2_128"
    /\ \E n0 \in {<<>>, U128Max}, d0 \in {<<>>, U64Max, U128Max} :
        /\ arg' = <<arg[1], n0, d0>>
        /\ res' = Call("steps_3by2_128", <<a, b, n0, arg[1], d0>>)
    /\ UNCHANGED <<tier, a, b, budget>>

NextDiv ==
    \/ DivWide
    \/ Div3by2
    \/ Div3by2_128

SpecDiv == InitDiv /\ [][NextDiv]_vars

\* u32 operands of isqrt_u32 (those below 2^31)
U32Samples == {0, 1, 2, 3, 4, 15, 16, 17, 99, 25599, 65535, 65536, 2147395599, 2147395600, 2147483647}

\* The integer square roots: a u32 in the 8-bit configuration, a u128 and a
\* u256 (a, b) in the 64-bit one, a u512 (a, b) of two u256 in the 128-bit one
InitIsqrt ==
    /\ tier \in {8, 64, 128}
    /\ \E S \in {IF tier = 8 THEN U32Samples ELSE IF tier = 64 THEN KernelWords ELSE KernelPairs} :
        /\ a \in S
        /\ b \in IF tier = 8 THEN {a} ELSE S
    /\ op = "init"
    /\ arg = <<>>
    /\ res = Ok(<<>>)
    /\ budget = 1

IsqrtU32 ==
    /\ op = "init" /\ tier = 8
    /\ op' = "isqrt_u32"
    /\ res' = Ok(Call("isqrt_u32", <<a>>))
    /\ UNCHANGED <<tier, a, b, arg, budget>>

IsqrtU128 ==
    /\ op = "init" /\ tier = 64
    /\ op' = "isqrt_u128"
    /\ res' = Ok(Call("isqrt_u128", <<a>>))
    /\ UNCHANGED <<tier, a, b, arg, budget>>

IsqrtU256 ==
    /\ op = "init" /\ tier = 64
    /\ op' = "isqrt_u256"
    /\ res' = Call("isqrt_u256", <<a, b>>)
    /\ UNCHANGED <<tier, a, b, arg, budget>>

IsqrtU512 ==
    /\ op = "init" /\ tier = 128
    /\ op' = "isqrt_u512"
    /\ res' = Call("isqrt_u512", <<a[1], a[2], b[1], b[2]>>)
    /\ UNCHANGED <<tier, a, b, arg, budget>>

NextIsqrt ==
    \/ IsqrtU32
    \/ IsqrtU128
    \/ IsqrtU256
    \/ IsqrtU512

SpecIsqrt == InitIsqrt /\ [][NextIsqrt]_vars

\* ======================================================================
\* Exact arithmetic the claims are stated in
\* ======================================================================

\* a field of a value as an unbounded natural, and back
Nat_(t, v) == IF t = 8 THEN Call("Big", <<v>>) ELSE v
Field(t, n) == IF t = 8 THEN Call("Small", <<n>>) ELSE n

\* the tier's target scale and largest integer part
TargetScale(t) ==
    CASE t = 8 -> TARGET_SCALE_8 [] t = 32 -> TARGET_SCALE_32
      [] t = 64 -> TARGET_SCALE [] t = 128 -> TARGET_SCALE_128

MaxInt(t) ==
    CASE t = 8 -> Call("Big", <<U8Max>>) [] t = 32 -> U32Max [] t = 64 -> U64Max [] t = 128 -> U128Max

\* |x| * 10^scale
Mag(t, x) == ((Nat_(t, x.int) (.) Call("BPow10", <<x.scale>>)) (+) Nat_(t, x.frac))

IsZero(t, x) == BZero(Mag(t, x))

\* -1, 0, 1
Sign(t, x) == IF IsZero(t, x) THEN 0 ELSE IF x.neg THEN 0 - 1 ELSE 1

\* comparison of the numeric values sign * (int + frac / 10^scale)
NumCmp(t, x, y) ==
    LET sx == Sign(t, x)
        sy == Sign(t, y)
        c == Call("BCmp", <<(Mag(t, x) (.) Call("BPow10", <<y.scale>>)), (Mag(t, y) (.) Call("BPow10", <<x.scale>>))>>)
    IN  IF sx # sy THEN OrdOf(sx, sy)
        ELSE IF sx = 0 THEN Equal
        ELSE sx * c

\* fractional_part < 10^scale, scale <= the tier's maximum, int in range
Valid(t, x) ==
    /\ x.scale \in 0..TargetScale(t)
    /\ (Nat_(t, x.frac) \prec Call("BPow10", <<x.scale>>))
    /\ (Nat_(t, x.int) \preceq MaxInt(t))

Max(m, n) == IF m >= n THEN m ELSE n
Min(m, n) == IF m <= n THEN m ELSE n

\* the product |x| * |y| cut to min(scale x + scale y, T) fractional digits:
\* <<magnitude at that scale, that scale>>
ExactProduct(t, x, y) ==
    LET ts == x.scale + y.scale
        p == (Mag(t, x) (.) Mag(t, y))
    IN  IF ts > TargetScale(t)
        THEN <<(p (/) Call("BPow10", <<ts - TargetScale(t)>>)), TargetScale(t)>>
        ELSE <<p, ts>>

\* the integer part of the product exceeds the tier's largest integer
ProductOverflows(t, x, y) ==
    LET e == ExactProduct(t, x, y)
    IN  ((e[1] (/) Call("BPow10", <<e[2]>>)) \succ MaxInt(t))

\* floor(|x| / |y| * 10^T)
ExactQuotient(t, x, y) ==
    ((Mag(t, x) (.) Call("BPow10", <<TargetScale(t) + y.scale - x.scale>>)) (/) Mag(t, y))

\* the value with magnitude m at scale s and sign bit n
DecOf(t, m, s, n) == Dec(Field(t, (m (/) Call("BPow10", <<s>>))), Field(t, (m %% Call("BPow10", <<s>>))), s, n)

\* ======================================================================
\* Claims
\* ======================================================================

\* C1: values that are numerically equal feed identical data to the hasher,
\* in every tier.
C1_HashConsistent ==
    (op = "hash" /\ NumCmp(tier, a, b) = Equal) => res.val[1] = res.val[2]

\* C2: checked_sub returns Some for every pair of valid operands; it never
\* returns None and never aborts.
C2_CheckedSubIsSome == op = "checked_sub" => res.tag = "some"

\* C3: mul aborts whenever the integer part of the product exceeds the
\* tier's largest integer; it returns no value then.
C3_MulAbortsOnOverflow ==
    (op = "mul" /\ ProductOverflows(tier, a, b)) => res.tag = "abort"

\* C4: checked_mul never aborts; it is None when the integer part of the
\* product exceeds the tier's largest integer and otherwise Some of the
\* product truncated to min(scale a + scale b, T) fractional digits.
C4_CheckedMulTotal ==
    op = "checked_mul" =>
        IF ProductOverflows(tier, a, b)
        THEN res = None
        ELSE LET e == ExactProduct(tier, a, b)
             IN  res = Some(DecOf(tier, e[1], e[2], a.neg # b.neg))

\* C6: cmp is the comparison of the exact numeric values
\* sign * (int + frac / 10^scale): Equal exactly for numerically equal
\* values (zeros of either sign, equal magnitudes at different scales),
\* negative below positive, magnitude order reversed between negatives.
\* Being the order of the rationals on these values, it is a total order.
C6_CmpIsNumericOrder == op = "cmp" => res.val = NumCmp(tier, a, b)

\* two negative values at different scales were compared
C6_Witness ==
    /\ op = "cmp" /\ tier = 32
    /\ a.neg /\ b.neg /\ a.scale # b.scale
    /\ res.val = Greater

\* the magnitude of x brought to scale s >= x.scale
MagAt(t, x, s) == (Mag(t, x) (.) Call("BPow10", <<s - x.scale>>))

\* C7: an add that does not abort returns the exact sum at scale
\* max(scale a, scale b): the magnitudes add (same signs) or subtract
\* (different signs, taking the sign of the larger magnitude), and the
\* fractional part stays below 10^scale, the carry or borrow having gone
\* into the integer part.
C7_AddExact ==
    (op = "add" /\ res.tag = "ok") =>
        LET s == Max(a.scale, b.scale)
            A == MagAt(tier, a, s)
            B == MagAt(tier, b, s)
            r == res.val
        IN  /\ r.scale = s
            /\ (Nat_(tier, r.frac) \prec Call("BPow10", <<s>>))
            /\ IF a.neg = b.neg
               THEN Mag(tier, r) = (A (+) B) /\ r.neg = a.neg
               ELSE IF (A \succeq B)
                    THEN Mag(tier, r) = (A (-) B) /\ ((A \succ B) => r.neg = a.neg)
                    ELSE Mag(tier, r) = (B (-) A) /\ r.neg = b.neg

\* a sum of same-signed values at different scales carried into the
\* integer part
C7_Witness ==
    /\ op = "add" /\ res.tag = "ok"
    /\ a.neg = b.neg /\ a.scale # b.scale
    /\ Nat_(tier, res.val.int) = ((Nat_(tier, a.int) (+) Nat_(tier, b.int)) (+) <<1>>)

\* int a + int b + fractional carry exceeds the tier's largest integer
SumOverflows(t, x, y) ==
    LET s == Max(x.scale, y.scale)
        f == ((MagAt(t, x, s) %% Call("BPow10", <<s>>)) (+) (MagAt(t, y, s) %% Call("BPow10", <<s>>)))
        carry == IF (f \succeq Call("BPow10", <<s>>)) THEN <<1>> ELSE <<>>
    IN  (((Nat_(t, x.int) (+) Nat_(t, y.int)) (+) carry) \succ MaxInt(t))

\* C8: for operands of the same sign add aborts exactly when
\* int a + int b + fractional carry exceeds the tier's largest integer, and
\* checked_add is None exactly then and Some(add(a, b)) otherwise; for
\* operands of opposite signs add does not abort and checked_add is
\* Some(add(a, b)).  checked_add never aborts.
C8_AddOverflowPolicy ==
    op = "add" =>
        LET over == a.neg = b.neg /\ SumOverflows(tier, a, b)
            ca == Call("checked_add", <<tier, a, b>>)
        IN  /\ res.tag = "abort" <=> over
            /\ over => ca = None
            /\ ~over => ca = Some(res.val)

\* an addition aborted for the fractional carry alone
C8_Witness ==
    /\ op = "add" /\ res.tag = "abort"
    /\ (Nat_(tier, a.int) (+) Nat_(tier, b.int)) = MaxInt(tier)

\* the integer part of the quotient fits the tier
QuotientFits(t, x, y) ==
    ((ExactQuotient(t, x, y) (/) Call("BPow10", <<TargetScale(t)>>)) \preceq MaxInt(t))

\* C9: for b # 0 and a quotient whose integer part fits the tier, div
\* returns sign a xor sign b, the target scale T and the combined value
\* floor(|a| / |b| * 10^T), on every path of every tier.
C9_DivTruncates ==
    (op = "div" /\ ~IsZero(tier, b) /\ QuotientFits(tier, a, b)) =>
        res = Ok(DecOf(tier, ExactQuotient(tier, a, b), TargetScale(tier), a.neg # b.neg))

\* the full-width path of the 128-bit tier cut off a non-terminating
\* quotient
C9_Witness ==
    /\ op = "div" /\ tier = 128 /\ res.tag = "ok"
    /\ ~IsZero(tier, b) /\ QuotientFits(tier, a, b)
    /\ div_path128(a, b) = "slow"
    /\ ~BZero(((Mag(tier, a) (.) Call("BPow10", <<TargetScale(tier) + b.scale - a.scale>>)) %% Mag(tier, b)))

\* C10: a mul that does not abort returns sign a xor sign b and the exact
\* product at scale a + scale b when that is at most T, otherwise the
\* product cut (floor of the magnitude) to T fractional digits, whichever
\* path computes it.
C10_MulExactOrTruncated ==
    (op = "mul" /\ res.tag = "ok") =>
        LET e == ExactProduct(tier, a, b)
        IN  res.val = DecOf(tier, e[1], e[2], a.neg # b.neg)

\* C11: div and rem abort for a zero divisor (integer part 0 and
\* fractional part 0, at any scale, with either sign bit), whatever the
\* dividend, in every tier.
C11_ZeroDivisorAborts ==
    (op \in {"div", "rem"} /\ IsZero(tier, b)) => res.tag = "abort"

\* a remainder by a negative zero with fractional digits aborted
C11_Witness ==
    /\ op = "rem" /\ res.tag = "abort"
    /\ IsZero(tier, b) /\ b.neg /\ b.scale > 0
    /\ ~IsZero(tier, a)

\* |x| - floor(|x| / |y|) * |y| at scale max(scale x, scale y)
ExactRemainder(t, x, y) ==
    LET s == Max(x.scale, y.scale)
    IN  (MagAt(t, x, s) %% MagAt(t, y, s))

\* C12: for every a and every b # 0, rem(a, b) is a - q * b with q the
\* quotient a / b cut to its integer part: the value of magnitude
\* |a| - floor(|a| / |b|) * |b| with the sign of a.
C12_RemIdentity ==
    (op = "rem" /\ ~IsZero(tier, b)) =>
        /\ res.tag = "ok"
        /\ LET s == Max(a.scale, b.scale)
               r == res.val
           IN  /\ (Mag(tier, r) (.) Call("BPow10", <<s>>))
                    = (ExactRemainder(tier, a, b) (.) Call("BPow10", <<r.scale>>))
               /\ IsZero(tier, r) \/ r.neg = a.neg

\* the number of fractional digits of a square root
SqrtDigits(t) == CASE t = 8 -> 1 [] t = 32 -> 8 [] t = 64 -> 18 [] t = 128 -> 37

Rounded(t, v, p, mode) ==
    LET D == Call("BPow10", <<v.scale - p>>)
        q == (Mag(t, v) (/) D)
        r == (Mag(t, v) %% D)
        twice == (r (+) r)
        away == CASE mode = "Floor" -> v.neg /\ ~BZero(r)
                  [] mode = "Ceil" -> ~v.neg /\ ~BZero(r)
                  [] mode = "Truncate" -> FALSE
                  [] mode = "HalfUp" -> (twice \succeq D)
                  [] mode = "HalfDown" -> (twice \succ D)
                  [] mode = "HalfEven" -> (twice \succ D) \/ (twice = D /\ Odd(q))
    IN  (q (+) BBool(away))

\* the integer part of the rounded value fits the tier
RoundFits(t, v, p, mode) ==
    ((Rounded(t, v, p, mode) (/) Call("BPow10", <<p>>)) \preceq MaxInt(t))

\* C14: for scale v > places and a rounded value whose integer part fits,
\* round returns, with the sign of v and at scale places, the multiple of
\* 10^-places the mode defines: Floor the greatest one <= v, Ceil the least
\* one >= v, Truncate the one toward zero, HalfUp, HalfDown and HalfEven the
\* nearest one with ties away from zero, toward zero and to the even digit.
C14_RoundModes ==
    (op = "round" /\ arg[2] # "Fract" /\ a.scale > arg[1]
        /\ RoundFits(tier, a, arg[1], arg[2])) =>
        res = Ok(DecOf(tier, Rounded(tier, a, arg[1], arg[2]), arg[1], a.neg))

\* C15 as stated: round returns v unchanged whenever scale v <= places, in
\* every one of the seven modes.
C15_RoundKeepsAnyMode ==
    (op = "round" /\ a.scale <= arg[1]) => res = Ok(a)

\* C15: round returns v unchanged (integer part, fractional part, scale and
\* sign) whenever scale v <= places, in each of the six rounding modes; in
\* the mode Fract it returns the fractional part of v with integer part 0,
\* whatever the places.
C15_RoundKeeps ==
    op = "round" =>
        /\ (a.scale <= arg[1] /\ arg[2] # "Fract") => res = Ok(a)
        /\ arg[2] = "Fract" => res = Ok(Dec(Field(tier, <<>>), a.frac, a.scale, a.neg))

\* a value with a fractional digit rounded half-even to more places than
\* it has
C15_Witness ==
    /\ op = "round" /\ arg[2] = "HalfEven" /\ a.scale > 0 /\ a.scale < arg[1]
    /\ ~BZero(Nat_(tier, a.frac)) /\ res = Ok(a)

\* C16: when the round-up of a round carries the integer part past the
\* tier's largest integer, round aborts; it returns no wrapped value.
C16_RoundCarryAborts ==
    (op = "round" /\ arg[2] # "Fract" /\ a.scale > arg[1]
        /\ ~RoundFits(tier, a, arg[1], arg[2])) =>
        res.tag = "abort"

\* two results agree: both abort, or both return and the values compare
\* equal under the tier's cmp
SameOutcome(t, r, s) ==
    /\ r.tag = s.tag
    /\ r.tag = "ok" => Call("cmp", <<t, r.val, s.val>>) = Equal

\* C17: add and mul are commutative in every tier: add(a, b) and add(b, a)
\* both abort or return results that compare equal, and so do mul(a, b) and
\* mul(b, a).
C17_Commutative ==
    /\ op = "add" => SameOutcome(tier, res, Call("add", <<tier, b, a>>))
    /\ op = "mul" => SameOutcome(tier, res, Call("mul", <<tier, b, a>>))

\* a product of two different non-zero values of different scales in the
\* 128-bit tier
C17_Witness ==
    /\ op = "mul" /\ tier = 128 /\ res.tag = "ok"
    /\ a # b /\ a.scale # b.scale /\ ~IsZero(tier, a) /\ ~IsZero(tier, b)
    /\ Call("mul", <<tier, b, a>>) = res

\* C18: sub(a, b) and add(a, negate(b)) abort in the same cases and
\* otherwise return the same integer part, fractional part, scale and sign,
\* in every tier.
C18_SubIsAddNeg ==
    op = "sub" => res = Call("add", <<tier, a, Call("neg", <<tier, b>>)>>)

\* a difference of two values of the same sign, the second of larger
\* magnitude, so that the result takes the flipped sign of the second
C18_Witness ==
    /\ op = "sub" /\ res.tag = "ok" /\ a.neg = b.neg
    /\ NumCmp(tier, Call("abs", <<tier, a>>), Call("abs", <<tier, b>>)) = Less
    /\ res.val.neg = ~b.neg


\* C19: the text a value is written as by default (no precision) parses
\* back, with parse of the tier and with parse of lib.rs in the 64-bit tier,
\* to a value equal to the one written: the comparison of the tier gives
\* Equal, and the two are the same number.
C19_RoundTrip ==
    (op \in {"parse", "parse_lib"} /\ arg[1] = None) =>
        /\ res.tag = "ok"
        /\ Call("cmp", <<tier, res.val, a>>) = Equal
        /\ NumCmp(tier, res.val, a) = Equal

\* a value of 38 fractional digits, all but the last of them zero, was
\* written and parsed back to itself
C19_Witness ==
    /\ op = "parse" /\ arg[1] = None /\ tier = 128
    /\ a.scale = 38 /\ a.frac = <<1>>
    /\ Len(arg[2]) = 40
    /\ res = Ok(a)


\* the digits of the integer part of a text: those after an optional "-",
\* up to the first character that is no digit
IntDigits(s) ==
    LET i0 == IF Len(s) > 0 /\ s[1] = "-" THEN 2 ELSE 1
        stops == {k \in i0..Len(s) : wrapping_digit(s[k]) > 9}
        stop == IF stops = {} THEN Len(s) + 1 ELSE CHOOSE k \in stops : \A j \in stops : k <= j
    IN  SubSeq(s, i0, stop - 1)

\* the natural a sequence of digits stands for
ValueOf(ds) == Call("ValueFrom", <<ds, 1, <<>>>>)

\* C20: in every tier, the 64-bit tier of lib.rs included, parsing a text
\* whose integer part is larger than the largest integer part of the tier
\* fails with the Overflow error.
C20_ParseOverflowErrors ==
    (/\ op \in {"from_str", "from_str_lib", "parse", "parse_lib"}
     /\ (ValueOf(IntDigits(arg[2])) \succ MaxInt(tier)))
        => res = Err("Overflow")


RunEnd(s, i) ==
    LET stops == {k \in i..Len(s) : wrapping_digit(s[k]) > 9}
    IN  IF stops = {} THEN Len(s) + 1 ELSE CHOOSE k \in stops : \A j \in stops : k <= j

\* a text read as [-]digits[.]digits and a rest: the positions where the
\* integer digits start and end, where the fractional digits start and end
Shape(s) ==
    LET i0 == IF Len(s) > 0 /\ s[1] = "-" THEN 2 ELSE 1
        i1 == RunEnd(s, i0)
        i2 == IF i1 <= Len(s) /\ s[i1] = "." THEN i1 + 1 ELSE i1
        i3 == RunEnd(s, i2)
    IN  [int |-> SubSeq(s, i0, i1 - 1), dot |-> i2 > i1, frac |-> SubSeq(s, i2, i3 - 1),
         rest |-> SubSeq(s, i3, Len(s))]

\* the text is [-]digits[.digits]
WellFormed(s) ==
    /\ Shape(s).int # <<>>
    /\ Shape(s).rest = <<>>
    /\ Shape(s).dot => Shape(s).frac # <<>>

C22_FracTruncated ==
    (/\ op \in {"from_str", "from_str_lib", "parse", "parse_lib"}
     /\ WellFormed(arg[2])
     /\ (ValueOf(Shape(arg[2]).int) \preceq MaxInt(tier))
     /\ Len(Shape(arg[2]).frac) > TargetScale(tier)) =>
        /\ res.tag = "ok"
        /\ res.val.scale = TargetScale(tier)
        /\ Nat_(tier, res.val.frac) = ValueOf(SubSeq(Shape(arg[2]).frac, 1, TargetScale(tier)))
        /\ Nat_(tier, res.val.int) = ValueOf(Shape(arg[2]).int)

\* a text of 41 fractional nines was parsed in the 128-bit tier and gave 38
\* of them
C22_Witness ==
    /\ op = "from_str" /\ tier = 128
    /\ Len(Shape(arg[2]).frac) = 41
    /\ res.tag = "ok" /\ res.val.scale = 38
    /\ res.val.frac = (Call("BPow10", <<38>>) (-) <<1>>)


\* the number of binary digits of a natural
BitLength(k) == CHOOSE l \in 0..31 : 2 ^ l > k /\ (l = 0 \/ 2 ^ (l - 1) <= k)

\* C23: pow(x, 0) is ONE for every x, zero included; pow(x, n) with n < 0
\* aborts for a zero x and is otherwise the power |n| of the quotient ONE / x
\* (aborting when the quotient does); and a pow that returns ran its loop
\* bit-length(|n|) times.
C23_PowShape ==
    op = "pow" =>
        /\ arg = 0 => (res.tag = "ok" /\ res.val = ONE(tier))
        /\ (arg < 0 /\ IsZero(tier, a)) => res = Abort
        /\ (arg < 0 /\ ~IsZero(tier, a)) =>
              LET q == Call("div", <<tier, ONE(tier), a>>)
              IN  IF q.tag = "abort" THEN res = Abort
                  ELSE res = Call("pow", <<tier, q.val, 0 - arg>>)
        /\ res.tag = "ok" => res.iters = BitLength(IF arg < 0 THEN 0 - arg ELSE arg)

\* the power -2 of a value of the 8-bit tier with a fractional part was
\* returned after two iterations
C23_Witness ==
    /\ op = "pow" /\ tier = 8 /\ arg = 0 - 2
    /\ a.frac # 0
    /\ res.tag = "ok" /\ res.iters = 2


\* the quotient of the parsed texts 10 and 4 of the 64-bit tier was written
\* without a precision
QuotientWritten ==
    /\ tier = 64 /\ op = "format" /\ arg = <<None, "div">>
    /\ a = Call("parse_str", <<64, <<"1", "0">>>>).val
    /\ b = Call("parse_str", <<64, <<"4">>>>).val

\* C24 as stated: the quotient of parse("10") and parse("4") in the 64-bit
\* tier is written as 2.500000000000000000, with 18 fractional digits.
C24_QuotientText18 ==
    QuotientWritten => res.val = <<"2", ".", "5">> \o [i \in 1..17 |-> "0"]

\* C24: the quotient of parse("10") and parse("4") in the 64-bit tier is
\* written with the 19 fractional digits of the target scale: the digit 5
\* and 18 zeros.
C24_QuotientText ==
    QuotientWritten => res.val = <<"2", ".", "5">> \o [i \in 1..18 |-> "0"]

\* the quotient was written as a text of 21 characters
C24_Witness == QuotientWritten /\ Len(res.val) = 21 /\ res.val[1] = "2" /\ res.val[3] = "5"


\* C25: for b # 0, a div whose truncated quotient has an integer part
\* larger than the largest integer part of the tier aborts.
C25_DivOverflowAborts ==
    (op = "div" /\ ~IsZero(tier, b) /\ ~QuotientFits(tier, a, b)) => res = Abort


RECURSIVE BPower(_, _)
\* m^k
BPower(m, k) == IF k = 0 THEN <<1>> ELSE (m (.) BPower(m, k - 1))

\* the integer part of the exact power |x|^k is larger than the largest
\* integer part of the tier
PowerOverflows(t, x, k) ==
    ((BPower(Mag(t, x), k) (/) Call("BPow10", <<x.scale * k>>)) \succ MaxInt(t))

\* C26: a pow(x, n) with n >= 1 that aborts has a power x^k, 1 <= k <= n,
\* whose integer part does not fit the tier; and pow(x, 1) returns x.
C26_PowAbortsOnlyOnOverflow ==
    (op = "pow" /\ arg >= 1) =>
        /\ res = Abort => \E k \in 1..arg : PowerOverflows(tier, a, k)
        /\ arg = 1 => (res.tag = "ok" /\ NumCmp(tier, res.val, a) = Equal)


\* |x - y| as a magnitude at the scale s >= the scales of x and y
Distance(t, x, y, s) ==
    LET mx == (Mag(t, x) (.) Call("BPow10", <<s - x.scale>>))
        my == (Mag(t, y) (.) Call("BPow10", <<s - y.scale>>))
    IN  IF x.neg # y.neg THEN (mx (+) my)
        ELSE IF (mx \succeq my) THEN (mx (-) my) ELSE (my (-) mx)

\* the larger of two scales
MaxScale(i, j) == IF i >= j THEN i ELSE j

\* C27: in every mode other than Fract, a round(v, places, mode) that
\* returns gives a value r with |r - v| < 10^-places.
C27_RoundErrorBound ==
    (op = "round" /\ arg[2] # "Fract" /\ res.tag = "ok") =>
        LET s == MaxScale(MaxScale(a.scale, res.val.scale), arg[1])
        IN  (Distance(tier, res.val, a, s) \prec Call("BPow10", <<s - arg[1]>>))


\* the value of a u256 pair <<hi, lo>>
u256(p) == ((p[1] (.) Pow2_128) (+) p[2])

\* the u128 limbs of n, the highest first, k of them
Limbs128(n, k) ==
    [i \in 1..k |-> ((n (/) Call("Pow2", <<128 * (k - i)>>)) %% Pow2_128)]

\* C30: mul_wide returns the two u128 limbs of the exact product a * b, in
\* wide.rs and in lib.rs, and mul_u256 the four u128 limbs of the exact
\* product of its u256 operands.
C30_ExactProducts ==
    /\ op \in {"mul_wide", "mul_wide_lib"} => res = Ok(Limbs128((a (.) b), 2))
    /\ op = "mul_u256" => res = Ok(Limbs128((u256(a) (.) u256(b)), 4))


\* the exact quotient and remainder of the step'th 3-by-2 step of div_wide:
\* the dividend and the divisor shifted to a normalized divisor, the
\* quotient taken one 64-bit digit at a time
ExactStep(high, low, divisor, step) ==
    LET s == Call("Pow2", <<128 - Call("BitLen", <<divisor>>)>>)
        n == (u256(<<high, low>>) (.) s)
        d == (divisor (.) s)
        top == (n (/) Pow2_64)
        num == IF step = 1 THEN top ELSE (((top %% d) (.) Pow2_64) (+) (n %% Pow2_64))
    IN  <<(num (/) d), (num %% d)>>

\* C28: div_wide(high, low, divisor) with divisor != 0 and high < divisor
\* returns floor((high * 2^128 + low) / divisor); each 3-by-2 step on a
\* normalized divisor returns the exact quotient digit and remainder after
\* at most two corrections of the estimate and at most one add-back.
C28_DivWideExact ==
    /\ (op = "div_wide" /\ ~BZero(arg[1]) /\ (a \prec arg[1])) =>
            res = Ok((u256(<<a, b>>) (/) arg[1]))
    /\ op = "div_3by2" =>
            /\ <<res.val[1], res.val[2]>> = ExactStep(a, b, arg[1], arg[2])
            /\ (res.val[3] \preceq <<2>>) /\ (res.val[4] \preceq <<1>>)
    /\ (op = "div_3by2_128" /\ (u256(<<a, b>>) \prec u256(<<arg[1], arg[3]>>))) =>
            /\ res.tag = "ok"
            /\ res.val[1] = (((u256(<<a, b>>) (.) Pow2_128) (+) arg[2]) (/) u256(<<arg[1], arg[3]>>))
            /\ u256(res.val[2]) = (((u256(<<a, b>>) (.) Pow2_128) (+) arg[2]) %% u256(<<arg[1], arg[3]>>))
            /\ (res.val[3] \preceq <<2>>) /\ (res.val[4] \preceq <<1>>)

\* a 3-by-2 step of div_wide that corrected its estimate twice and
\* returned the exact quotient digit and remainder
C28_Witness ==
    /\ op = "div_3by2" /\ res.val[3] = <<2>>
    /\ <<res.val[1], res.val[2]>> = ExactStep(a, b, arg[1], arg[2])


\* r is the integer square root of n: r^2 <= n < (r + 1)^2
IsFloorSqrt(r, n) ==
    ((r (.) r) \preceq n) /\ (((r (+) <<1>>) (.) (r (+) <<1>>)) \succ n)

\* C29: every kernel integer square root returns (its loop ends, nothing
\* panics) the r with r^2 <= n < (r + 1)^2.
C29_IsqrtExact ==
    /\ op = "isqrt_u32" =>
            res.tag = "ok" /\ IsFloorSqrt(Call("Big", <<res.val>>), Call("Big", <<a>>))
    /\ op = "isqrt_u128" => res.tag = "ok" /\ IsFloorSqrt(res.val, a)
    /\ op = "isqrt_u256" => res.tag = "ok" /\ IsFloorSqrt(res.val, u256(<<a, b>>))
    /\ op = "isqrt_u512" =>
            res.tag = "ok" /\ IsFloorSqrt(u256(res.val), ((u256(a) (.) Call("Pow2", <<256>>)) (+) u256(b)))

====
